---- MODULE Spec2Model ----
(***************************************************************************)
(* A model of the handle builder of src/make_handle.py (and of the older   *)
(* script variant src/main.py).                                            *)
(*                                                                         *)
(* Numbers.  The program computes with floating point vectors of the host  *)
(* library (mathutils).  The model computes on an integer lattice:         *)
(*   - a position is a triple of integers, in units of two thirds of the   *)
(*     edge threshold of make_handle (1e-10), so that an edge can be       *)
(*     shorter than the threshold without being zero, and no edge of the   *)
(*     lattice has the length of the threshold itself, where the outcome   *)
(*     of the comparison would be left to the rounding of the length;      *)
(*   - a weight is a number of units of 1.0, as in the source.  A sum of   *)
(*     positions and of weighted normals is carried on both scales, as     *)
(*     [lattice, unit]: lattice * (1e-10 / 1.5) + unit * 1.0.  The vectors *)
(*     of the library hold single precision coordinates: a coordinate      *)
(*     that received a unit scale term has lost its lattice scale terms,   *)
(*     which are below the last digit of the sum;                          *)
(*   - the result of Vector.normalized() is carried by the shortest        *)
(*     lattice vector of the same direction (a unit vector along a         *)
(*     coordinate axis by itself); the zero vector stays zero;             *)
(*   - the result of Vector.length is carried by its square,               *)
(*     [squared |-> q] for the length sqrt(q);                             *)
(*   - an angle is a pair [turns, dir]: the value atan2(dir[2], dir[1])    *)
(*     plus turns whole turns (2*pi each).  Comparison and adding whole    *)
(*     turns are exact on this representation.  Where the source compares  *)
(*     a difference of two angles with pi and the difference is pi, the    *)
(*     outcome in floating point depends on rounding: both outcomes are    *)
(*     behaviours of the model.  Likewise where the source compares two    *)
(*     angles that are equal: unless both were computed from the same      *)
(*     numbers, both outcomes are behaviours of the model;                 *)
(*   - main() of main.py computes on its own cube, in whole units; where   *)
(*     it turns a face to the line between two neighbouring faces, the     *)
(*     coordinates are numbers (r + s * sqrt(2)) / d, computed exactly;    *)
(*     likewise main() of make_handle.py, with another root;               *)
(*   - the spline parameter t = i/N is carried by the pair (i, N), and a   *)
(*     polynomial of t by its numerator over a power of N;                 *)
(*   - a blend a * (1 - t) + b * t of two lengths or two angles is carried *)
(*     by [a, b, i, n].                                                    *)
(***************************************************************************)
EXTENDS Integers, Sequences, FiniteSets, TLC

VARIABLES mesh, mh, call

vars == <<mesh, mh, call>>

----------------------------------------------------------------------------
(* Bounds of the model.                                                    *)

\* Segment counts tried are 1..MaxSmallSegments and the operator's default.
MaxSmallSegments == 2

\* Twist counts tried are -MaxTwists..MaxTwists.
MaxTwists == 1

\* Ring lengths tried by the stitcher on its own are 1..MaxRingLen.
MaxRingLen == 6

\* Polygon lengths tried by the polar functions on their own are 0..MaxPolygonLen.
MaxPolygonLen == 3

\* Coordinates tried by the spline functions on their own are -MaxCoord..MaxCoord.
MaxCoord == 1

----------------------------------------------------------------------------
(* Program constants.                                                      *)

\* segments: IntProperty(default=10); also the segment count main() passes.
DefaultSegments == 10

\* The weight main() passes to make_handle: 30.0.
MainWeight == 30

\* weight: FloatProperty(default=10.0)
DefaultWeight == 10

\* Twice the edge threshold 1e-10 of make_handle, in lattice units: the
\* threshold is one and a half units.
EdgeThresholdDoubled == 3

\* axis.length_squared < 1e-3 is written 1000 * |axis|^2 < 1, cleared of
\* denominators.
AxisThresholdInverse == 1000

----------------------------------------------------------------------------
(* Lists, indexed from 0 as in the source.                                 *)

At(list, i) == list[i + 1]

Range0(n) == 0 .. (n - 1)

Contains(list, x) == \E k \in DOMAIN list : list[k] = x

\* list.index(x): the first index holding x (x is in the list).
IndexOf(list, x) == CHOOSE i \in Range0(Len(list)) :
    /\ At(list, i) = x
    /\ \A j \in Range0(i) : At(list, j) # x

\* list[::-1]
Reversed(list) == [k \in 1 .. Len(list) |-> list[Len(list) + 1 - k]]

\* [x] * n
Repeat(x, n) == [k \in 1 .. n |-> x]

rotate_list(the_list, n) ==
    SubSeq(the_list, n + 1, Len(the_list)) \o SubSeq(the_list, 1, n)

----------------------------------------------------------------------------
(* Vectors of the host library, on the lattice.                            *)

Zero3 == <<0, 0, 0>>

VAdd(a, b) == <<a[1] + b[1], a[2] + b[2], a[3] + b[3]>>

VSub(a, b) == <<a[1] - b[1], a[2] - b[2], a[3] - b[3]>>

VScale(k, a) == <<k * a[1], k * a[2], k * a[3]>>

VNeg(a) == VScale(-1, a)

Dot(a, b) == a[1] * b[1] + a[2] * b[2] + a[3] * b[3]

Cross(a, b) ==
    << a[2] * b[3] - a[3] * b[2],
       a[3] * b[1] - a[1] * b[3],
       a[1] * b[2] - a[2] * b[1] >>

LengthSquared(a) == Dot(a, a)

Sign(x) == IF x > 0 THEN 1 ELSE IF x < 0 THEN -1 ELSE 0

\* Exact division of a lattice vector (the fixture keeps centroids on the lattice).
VDiv(a, n) == <<a[1] \div n, a[2] \div n, a[3] \div n>>

AxisAligned(a) == Cardinality({k \in 1 .. 3 : a[k] # 0}) <= 1

RECURSIVE Gcd(_, _)
Gcd(a, b) == IF b = 0 THEN a ELSE Gcd(b, a % b)

Abs(x) == IF x < 0 THEN -x ELSE x

\* Vector.normalized(): the shortest lattice vector of the direction of a,
\* which is the unit vector itself when a lies along a coordinate axis; the
\* host library maps the zero vector to the zero vector.
normalized(a) ==
    LET g == Gcd(Gcd(Abs(a[1]), Abs(a[2])), Abs(a[3]))
    IN  IF g = 0 THEN Zero3 ELSE VDiv(a, g)

RECURSIVE SumCo(_)
SumCo(cos) == IF cos = <<>> THEN Zero3 ELSE VAdd(Head(cos), SumCo(Tail(cos)))

----------------------------------------------------------------------------
(* Numbers (r + s * sqrt(root)) / d with integers r, s, d > 0 and a root   *)
(* that is no square, in lowest terms; root is 0 where s is 0.  The two    *)
(* main() compute on a cube of whole units, and the line between the       *)
(* centroids of two of its faces has a length that is no fraction: the     *)
(* unit vector along it, and the points turned to it, have coordinates of  *)
(* this form with one root throughout, and the arithmetic on them is exact.*)

Surd(r, s, d, root) ==
    LET g == Gcd(Gcd(Abs(r), Abs(s)), Abs(d))
    IN  [r |-> Sign(d) * (r \div g), s |-> Sign(d) * (s \div g), d |-> Abs(d) \div g,
         root |-> IF s = 0 THEN 0 ELSE root]

SurdInt(k) == [r |-> k, s |-> 0, d |-> 1, root |-> 0]

\* The root of two numbers of one run.
SurdRoot(x, y) == IF x.root # 0 THEN x.root ELSE y.root

SurdAdd(x, y) ==
    Surd(x.r * y.d + y.r * x.d, x.s * y.d + y.s * x.d, x.d * y.d, SurdRoot(x, y))

SurdNeg(x) == [x EXCEPT !.r = -x.r, !.s = -x.s]

SurdSub(x, y) == SurdAdd(x, SurdNeg(y))

SurdMul(x, y) ==
    Surd(x.r * y.r + SurdRoot(x, y) * x.s * y.s, x.r * y.s + x.s * y.r, x.d * y.d,
         SurdRoot(x, y))

\* The sign of r + s * sqrt(root): where r and s disagree, r * r against
\* root * s * s.
SurdSign(x) ==
    IF Sign(x.r) = Sign(x.s) \/ x.s = 0 THEN Sign(x.r)
    ELSE IF x.r = 0 THEN Sign(x.s)
    ELSE IF x.r * x.r > x.root * x.s * x.s THEN Sign(x.r) ELSE Sign(x.s)

\* 1 / x for x # 0: d * (r - s * sqrt(root)) / (r * r - root * s * s)
SurdInverse(x) ==
    Surd(x.d * x.r, -(x.d * x.s), x.r * x.r - x.root * x.s * x.s, x.root)

\* sqrt(x) of a fraction x = r / d >= 0: sqrt(r * d) / d, the squares taken
\* out of the root: m is the largest number whose square divides r * d.
SurdSqrt(x) ==
    IF x.r = 0 THEN SurdInt(0)
    ELSE LET n == x.r * x.d
             squares == {k \in 1 .. n : k * k <= n /\ n % (k * k) = 0}
             m == CHOOSE k \in squares : \A j \in squares : j <= k
         IN  IF n = m * m THEN Surd(m, 0, x.d, 0) ELSE Surd(0, m, x.d, n \div (m * m))

\* A lattice vector as a vector of such numbers.
SurdVector(a) == [k \in 1 .. 3 |-> SurdInt(a[k])]

SurdVAdd(a, b) == [k \in 1 .. 3 |-> SurdAdd(a[k], b[k])]

SurdVSub(a, b) == [k \in 1 .. 3 |-> SurdSub(a[k], b[k])]

SurdVScale(x, a) == [k \in 1 .. 3 |-> SurdMul(x, a[k])]

SurdDot(a, b) ==
    LET sum(p) == SurdAdd(SurdAdd(p[1], p[2]), p[3])
    IN  sum([k \in 1 .. 3 |-> SurdMul(a[k], b[k])])

\* Component k of a x b is a[k + 1] * b[k + 2] - a[k + 2] * b[k + 1], the
\* indices taken around 1, 2, 3.
SurdCross(a, b) ==
    [k \in 1 .. 3 |->
        SurdSub(SurdMul(a[(k % 3) + 1], b[((k + 1) % 3) + 1]),
                SurdMul(a[((k + 1) % 3) + 1], b[(k % 3) + 1]))]

SurdLengthSquared(a) == SurdDot(a, a)

\* Vector.normalized(): the unit vector itself; the zero vector stays zero.
SurdNormalized(a) ==
    LET over(length_squared) ==
            IF length_squared = SurdInt(0) THEN a
            ELSE SurdVScale(SurdInverse(SurdSqrt(length_squared)), a)
    IN  over(SurdLengthSquared(a))

----------------------------------------------------------------------------
(* Angles.  [turns |-> k, dir |-> <<c, s>>] is atan2(s, c) + 2*pi*k, with  *)
(* atan2 in (-pi, pi].                                                     *)

\* The direction <<c, s>> reduced to lowest terms, so that equal angles are
\* equal values; atan2(0, 0) is 0, the angle of <<1, 0>>.
Reduced(c, s) ==
    IF c = 0 /\ s = 0 THEN <<1, 0>>
    ELSE LET g == Gcd(Abs(c), Abs(s)) IN <<c \div g, s \div g>>

\* math.atan2(sin_angle, cos_angle)
atan2(s, c) == [turns |-> 0, dir |-> Reduced(c, s)]

\* A direction <<c, s>> is a pair of integers in lowest terms wherever c
\* and s are in the ratio of two integers.  Otherwise it is the triple
\* <<c, s, "exact">> of two numbers (r + s * sqrt(root)) / d, scaled so that
\* the first of them that is not zero is 1 or -1.
\* Where atan2 of a direction lies: 0 in (-pi, 0), 1 at 0, 2 in (0, pi), 3 at pi.
Region(d) ==
    IF Len(d) = 2
    THEN IF d[2] < 0 THEN 0
         ELSE IF d[2] > 0 THEN 2
         ELSE IF d[1] >= 0 THEN 1 ELSE 3
    ELSE IF SurdSign(d[2]) < 0 THEN 0
         ELSE IF SurdSign(d[2]) > 0 THEN 2
         ELSE IF SurdSign(d[1]) >= 0 THEN 1 ELSE 3

RawLess(d, e) ==
    LET numbers(x) ==
            IF Len(x) = 2 THEN <<SurdInt(x[1]), SurdInt(x[2])>> ELSE <<x[1], x[2]>>
    IN  \/ Region(d) < Region(e)
        \/ /\ Region(d) = Region(e)
           /\ Region(d) \in {0, 2}
           /\ IF Len(d) = 2 /\ Len(e) = 2
              THEN d[1] * e[2] - d[2] * e[1] > 0
              ELSE SurdSign(SurdSub(SurdMul(numbers(d)[1], numbers(e)[2]),
                                    SurdMul(numbers(d)[2], numbers(e)[1]))) > 0

\* a < b
AngleLess(a, b) ==
    \/ a.turns < b.turns
    \/ a.turns = b.turns /\ RawLess(a.dir, b.dir)

\* a + 2 * math.pi * k
AddTurns(a, k) == [a EXCEPT !.turns = a.turns + k]

\* a + math.pi
AddPi(a) ==
    [turns |-> IF Region(a.dir) \in {2, 3} THEN a.turns + 1 ELSE a.turns,
     dir |-> IF Len(a.dir) = 2 THEN <<-a.dir[1], -a.dir[2]>>
             ELSE <<SurdNeg(a.dir[1]), SurdNeg(a.dir[2]), a.dir[3]>>]

\* b - a > math.pi.  When b is a + pi the floating point difference is pi or
\* the next number above it, as the rounding of a and b has it: rounds_up
\* chooses.
ExceedsPi(b, a, rounds_up) ==
    \/ AngleLess(AddPi(a), b)
    \/ AddPi(a) = b /\ rounds_up

\* 0.0
ZeroAngle == [turns |-> 0, dir |-> <<1, 0>>]

\* Vector.length, carried by its square.
Length(a) == [squared |-> LengthSquared(a)]

\* length >= doubled / 2, for a number doubled >= 0
LengthAtLeast(length, doubled) == 4 * length.squared >= doubled * doubled

----------------------------------------------------------------------------
(* Spline basis.  A cubic of t = i/n is carried by its numerator over n^3, *)
(* its derivative by its numerator over n^2.                               *)

\* 2 * t * t * t - 3 * t * t + 1
hermite_1(i, n) == 2 * i * i * i - 3 * i * i * n + n * n * n

\* t * t * t - 2 * t * t + t
hermite_2(i, n) == i * i * i - 2 * i * i * n + i * n * n

\* 3 * 2 * t * t - 2 * 3 * t
hermite_1_derivative(i, n) == 3 * 2 * i * i - 2 * 3 * i * n

\* A derivative of hermite_2 that lost the factor 2 of its middle term.
hermite_2_derivative_lost_factor(i, n) == 3 * i * i - 2 * i * n + n * n

\* 3 * t * t - 2 * 2 * t + 1
hermite_2_derivative(i, n) == 3 * i * i - 2 * 2 * i * n + n * n

\* lattice + term_1 + term_2, added in this order in single precision, the
\* two terms on the unit scale.  A coordinate keeps its lattice part when
\* both of its terms are zero and loses it when their sum is not zero.
\* When the two terms are not zero and cancel, the lattice part was lost in
\* the first sum (absorbed), or survives where the sums carry more digits.
two_scale_sum(lattice, term_1, term_2, absorbed) ==
    LET Kept(k) == \/ term_1[k] = 0 /\ term_2[k] = 0
                   \/ term_1[k] + term_2[k] = 0 /\ ~absorbed
    IN  [lattice |-> [k \in 1 .. 3 |-> IF Kept(k) THEN lattice[k] ELSE 0],
         unit    |-> VAdd(term_1, term_2)]

\* The centroid of the ring at t = i/n, over n^3: the terms of the
\* centroids on the lattice, the terms of the weighted normals in units.
get_handle_centroid(centroid_1, normal_1, centroid_2, normal_2, i, n, weight, absorbed) ==
    two_scale_sum(VAdd(VScale(hermite_1(i, n), centroid_1),
                       VScale(hermite_1(n - i, n), centroid_2)),
                  VScale(weight * hermite_2(i, n), normal_1),
                  VScale(-(weight * hermite_2(n - i, n)), normal_2),
                  absorbed)

\* Lines 119-124 without the trailing normalized(): the derivative of the
\* centroid at t = i/n, over n^2.
handle_derivative(centroid_1, normal_1, centroid_2, normal_2, i, n, weight, absorbed) ==
    two_scale_sum(VAdd(VScale(hermite_1_derivative(i, n), centroid_1),
                       VScale(-hermite_1_derivative(n - i, n), centroid_2)),
                  VScale(weight * hermite_2_derivative(i, n), normal_1),
                  VScale(-(weight * (-hermite_2_derivative(n - i, n))), normal_2),
                  absorbed)

\* Vector.normalized() of a vector on both scales: the two parts divided by
\* the largest number that divides all their coordinates.
normalized_sum(v) ==
    LET g == Gcd(Gcd(Gcd(Abs(v.lattice[1]), Abs(v.lattice[2])), Abs(v.lattice[3])),
                 Gcd(Gcd(Abs(v.unit[1]), Abs(v.unit[2])), Abs(v.unit[3])))
    IN  IF g = 0 THEN v
        ELSE [lattice |-> VDiv(v.lattice, g), unit |-> VDiv(v.unit, g)]

get_handle_normal(centroid_1, normal_1, centroid_2, normal_2, i, n, weight, absorbed) ==
    normalized_sum(
        handle_derivative(centroid_1, normal_1, centroid_2, normal_2, i, n, weight,
                          absorbed))

----------------------------------------------------------------------------
(* Lengths and angles of vectors of numbers (r + s * sqrt(root)) / d.      *)

\* Vector.length, carried by its square: an integer where the square is one.
SurdLength(a) ==
    LET q == SurdLengthSquared(a)
    IN  [squared |-> IF q.s = 0 /\ q.d = 1 THEN q.r ELSE q]

\* math.atan2(s, c): the direction <<c, s>> in lowest terms where the two
\* numbers are in the ratio of two integers, and else scaled so that the
\* first of them that is not zero is 1 or -1.
SurdAtan2(s, c) ==
    LET direction(cr, sr) ==
            IF cr.s = 0 /\ sr.s = 0
            THEN atan2(sr.r * cr.d, cr.r * sr.d)
            ELSE [turns |-> 0, dir |-> <<cr, sr, "exact">>]
        scaled(scale) == direction(SurdMul(c, scale), SurdMul(s, scale))
        over(w) == scaled(SurdInverse(IF SurdSign(w) < 0 THEN SurdNeg(w) ELSE w))
    IN  IF SurdSign(c) = 0 /\ SurdSign(s) = 0 THEN atan2(0, 0)
        ELSE over(IF SurdSign(c) # 0 THEN c ELSE s)

----------------------------------------------------------------------------
(* Normal alignment, polar projection, cross-section interpolation.        *)

\* The rotation taking old_normal to new_normal, applied to every vertex.
\* Both normals are along coordinate axes (or zero), so that the rotation
\* is the identity shortcut or a quarter turn, which stays on the lattice:
\* cos_angle and sin_angle are then the exact cosine and sine, and axis is
\* the unit axis of the quaternion.
rotate_polygon_to_new_normal(vertices, old_normal, new_normal) ==
    LET old_normal_normalized == normalized(old_normal)
        new_normal_normalized == normalized(new_normal)
        axis == Cross(old_normal_normalized, new_normal_normalized)
        cos_angle == Dot(old_normal_normalized, new_normal_normalized)
        \* axis.length: past the shortcut the axis is a unit vector along a
        \* coordinate axis, whose length is its squared length, 1
        sin_angle == LengthSquared(axis)
        Rotated(vertex) ==
            VAdd(VAdd(VScale(cos_angle, vertex),
                      VScale(sin_angle, Cross(axis, vertex))),
                 VScale(Dot(axis, vertex) * (1 - cos_angle), axis))
    IN  IF AxisThresholdInverse * LengthSquared(axis) < 1
        THEN vertices
        ELSE [k \in 1 .. Len(vertices) |-> Rotated(vertices[k])]

\* The rotation of lines 50-65 (and of main.py, lines 38-53), for any two
\* normals.  The quaternion turns about the unit vector of axis by
\* atan2(sin_angle, cos_angle), whose cosine and sine are cos_angle and
\* sin_angle, the normals being unit vectors: the turned vertex is
\*   cos_angle * vertex + sin_angle * (unit_axis x vertex)
\*       + (1 - cos_angle) * (unit_axis . vertex) * unit_axis,
\* in which sin_angle * unit_axis is axis, and unit_axis taken twice is
\* axis taken twice over axis.length_squared.
rotate_polygon_to_new_normal_exact(vertices, old_normal, new_normal) ==
    LET Rotated(vertex, axis, cos_angle) ==
            SurdVAdd(SurdVAdd(SurdVScale(cos_angle, vertex), SurdCross(axis, vertex)),
                     SurdVScale(SurdMul(SurdMul(SurdDot(axis, vertex),
                                                SurdSub(SurdInt(1), cos_angle)),
                                        SurdInverse(SurdLengthSquared(axis))),
                                axis))
        \* lines 57-65
        About(axis, cos_angle) ==
            IF SurdSign(SurdSub(SurdMul(SurdInt(AxisThresholdInverse),
                                        SurdLengthSquared(axis)),
                                SurdInt(1))) < 0
            THEN vertices
            ELSE [k \in 1 .. Len(vertices) |-> Rotated(vertices[k], axis, cos_angle)]
        \* lines 56 and 61
        Between(old_normal_normalized, new_normal_normalized) ==
            About(SurdCross(old_normal_normalized, new_normal_normalized),
                  SurdDot(old_normal_normalized, new_normal_normalized))
    IN  Between(SurdNormalized(old_normal), SurdNormalized(new_normal))

\* while angle < last_angle: angle += 2 * math.pi
RECURSIVE Unwrap(_, _)
Unwrap(angle, last_angle) ==
    IF AngleLess(angle, last_angle)
    THEN Unwrap(AddTurns(angle, 1), last_angle)
    ELSE angle

\* vertex.dot(y_axis) is 0.0 whatever the rounding: every product is zero.
ExactSine(vertex, y_axis) == \A k \in 1 .. 3 : vertex[k] * y_axis[k] = 0

\* No vertex yet: last_angle is the 0.0 the loop starts from.
NoVertex == <<>>

\* The angle computed for `vertex` and last_angle are the same number
\* whenever they are equal in exact arithmetic: last_angle was computed from
\* the same vertex, or both are free of rounding (the arguments are given
\* exactly, exact_arguments, and the sines are exact zeros).
SameNumber(vertex, last_vertex, y_axis, exact_arguments) ==
    \/ vertex = last_vertex
    \/ /\ exact_arguments
       /\ ExactSine(vertex, y_axis)
       /\ last_vertex = NoVertex \/ ExactSine(last_vertex, y_axis)

\* The values the angle of `vertex` can have after the loop of line 78.
\* Where the angle equals last_angle in exact arithmetic and the two are not
\* the same number, the computed angle is last_angle or next to it on
\* either side: below it, one more turn is added.
UnwrappedAngles(vertex, x_axis, y_axis, last_angle, last_vertex, exact_arguments) ==
    LET cos_angle == Dot(vertex, x_axis)
        sin_angle == Dot(vertex, y_axis)
        angle == Unwrap(atan2(sin_angle, cos_angle), last_angle)
    IN  IF angle = last_angle
           /\ ~SameNumber(vertex, last_vertex, y_axis, exact_arguments)
        THEN {angle, AddTurns(angle, 1)}
        ELSE {angle}

\* The loop of convert_polygon_to_polar (make_handle.py), from the running
\* last_angle on: the lists it can return.
RECURSIVE PolarFrom(_, _, _, _, _, _)
PolarFrom(vertices, x_axis, y_axis, last_angle, last_vertex, exact_arguments) ==
    IF vertices = <<>> THEN {<<>>}
    ELSE LET vertex == Head(vertices)
             radius == Length(vertex)
         IN  UNION {
                 {<<[radius |-> radius, angle |-> angle]>> \o rest :
                     rest \in PolarFrom(Tail(vertices), x_axis, y_axis, angle,
                                        vertex, exact_arguments)} :
                 angle \in UnwrappedAngles(vertex, x_axis, y_axis, last_angle,
                                           last_vertex, exact_arguments)}

\* make_handle.py: the lists the function can return, one unless the
\* outcome of a comparison is left to rounding.
convert_polygon_to_polar(vertices, x_axis, y_axis, exact_arguments) ==
    PolarFrom(vertices, x_axis, y_axis, ZeroAngle, NoVertex, exact_arguments)

\* main.py: one `if`, and last_angle is never assigned again, so that every
\* angle is compared with 0.0.  The vertices and the axes are vectors of
\* numbers (r + s * sqrt(root)) / d.
RECURSIVE convert_polygon_to_polar_main(_, _, _, _)
convert_polygon_to_polar_main(vertices, x_axis, y_axis, exact_arguments) ==
    IF vertices = <<>> THEN {<<>>}
    ELSE LET vertex == Head(vertices)
             cos_angle == SurdDot(vertex, x_axis)
             sin_angle == SurdDot(vertex, y_axis)
             radius == SurdLength(vertex)
             angle == SurdAtan2(sin_angle, cos_angle)
             last_angle == ZeroAngle
             \* vertex.dot(y_axis) is 0.0 whatever the rounding
             exact_sine == \A k \in 1 .. 3 : SurdMul(vertex[k], y_axis[k]) = SurdInt(0)
             angles == IF AngleLess(angle, last_angle)
                       THEN {AddTurns(angle, 1)}
                       ELSE IF angle = last_angle /\ ~(exact_arguments /\ exact_sine)
                       THEN {angle, AddTurns(angle, 1)}
                       ELSE {angle}
         IN  UNION {
                 {<<[radius |-> radius, angle |-> a]>> \o rest :
                     rest \in convert_polygon_to_polar_main(
                                  Tail(vertices), x_axis, y_axis, exact_arguments)} :
                 a \in angles}

\* a * (1 - t) + b * t at t = i/n, for the radius and for the angle: the
\* two ends and the parameter.
BlendPoint(p, q, i, n) ==
    [radius |-> [a |-> p.radius, b |-> q.radius, i |-> i, n |-> n],
     angle  |-> [a |-> p.angle, b |-> q.angle, i |-> i, n |-> n]]

\* The loop runs over range(len(polar_polygon_1)) and indexes both lists:
\* polar_polygon_2[i] raises IndexError when the second list is shorter, and
\* the tail of a longer second list is never read.
interpolate_polar_polygons(polar_polygon_1, polar_polygon_2, i, n) ==
    IF Len(polar_polygon_1) > Len(polar_polygon_2)
    THEN [raised |-> "IndexError", result |-> <<>>]
    ELSE [raised |-> "",
          result |-> [k \in 1 .. Len(polar_polygon_1) |->
                         BlendPoint(polar_polygon_1[k], polar_polygon_2[k], i, n)]]

----------------------------------------------------------------------------
(* Ring stitcher: the vertex lists handed to contextual_create, in order.  *)
(* Rings are not empty.                                                    *)

\* A stitcher whose fan closes on the last vertex of the smaller ring.
RECURSIVE connect_fan_on_last(_, _)
connect_fan_on_last(vertices_1, vertices_2) ==
    IF Len(vertices_1) < Len(vertices_2)
    THEN connect_fan_on_last(vertices_2, vertices_1)
    ELSE [k \in 1 .. Len(vertices_2) |->
             LET i == k - 1
             IN  << At(vertices_1, i),
                    At(vertices_1, (i + 1) % Len(vertices_1)),
                    At(vertices_2, (i + 1) % Len(vertices_2)),
                    At(vertices_2, i) >>]
         \o
         [k \in 1 .. (Len(vertices_1) - Len(vertices_2)) |->
             LET i == Len(vertices_2) + k - 1
             IN  << At(vertices_1, i),
                    At(vertices_1, (i + 1) % Len(vertices_1)),
                    At(vertices_2, Len(vertices_2) - 1) >>]

RECURSIVE connect_vertices_with_prism(_, _)
connect_vertices_with_prism(vertices_1, vertices_2) ==
    IF Len(vertices_1) < Len(vertices_2)
    THEN connect_vertices_with_prism(vertices_2, vertices_1)
    ELSE [k \in 1 .. Len(vertices_2) |->
             LET i == k - 1
             IN  << At(vertices_1, i),
                    At(vertices_1, (i + 1) % Len(vertices_1)),
                    At(vertices_2, (i + 1) % Len(vertices_2)),
                    At(vertices_2, i) >>]
         \o
         [k \in 1 .. (Len(vertices_1) - Len(vertices_2)) |->
             LET i == Len(vertices_2) + k - 1
             IN  << At(vertices_1, i),
                    At(vertices_1, (i + 1) % Len(vertices_1)),
                    At(vertices_2, 0) >>]

----------------------------------------------------------------------------
(* The host mesh.  A vertex is a base point co/den and an offset around    *)
(* it: a vertex of the fixture is a lattice point with no offset; a vertex *)
(* of an interior ring has the ring's centroid (co on the lattice, co_unit *)
(* in units, both over den) as base point and its                          *)
(* blended polar point, turned to the ring's normal, as offset (the        *)
(* trigonometry of convert_polar_to_polygon is not evaluated).             *)

NoOffset ==
    [radius |-> [a |-> Length(Zero3), b |-> Length(Zero3), i |-> 0, n |-> 1],
     angle  |-> [a |-> ZeroAngle, b |-> ZeroAngle, i |-> 0, n |-> 1],
     normal |-> [lattice |-> Zero3, unit |-> Zero3]]

LatticeVertex(co) == [co |-> co, co_unit |-> Zero3, den |-> 1, offset |-> NoOffset]

\* bmesh.ops.create_vert(mesh, co=point): the new vertex is the last one.
create_vert(m, vertex) == [m EXCEPT !.verts = Append(m.verts, vertex)]

\* bmesh.ops.contextual_create(mesh, geom=vertices): a new face on the
\* given vertices, in the given order.
contextual_create(m, geom) ==
    [m EXCEPT !.faces = Append(m.faces, [verts |-> geom, normal |-> Zero3]),
              !.live = m.live \cup {Len(m.faces) + 1}]

RECURSIVE CreateAll(_, _)
CreateAll(m, geoms) ==
    IF geoms = <<>> THEN m
    ELSE CreateAll(contextual_create(m, Head(geoms)), Tail(geoms))

\* A deletion that takes with the face every face on one of its vertices.
delete_face_and_neighbours(m, face) ==
    [m EXCEPT !.live = {f \in m.live :
                           \A j \in DOMAIN m.faces[f].verts, k \in DOMAIN m.faces[face].verts :
                               m.faces[f].verts[j] # m.faces[face].verts[k]}]

\* bmesh.ops.delete(mesh, geom=[face], context="FACES_ONLY")
delete_face(m, face) == [m EXCEPT !.live = m.live \ {face}]

\* The fixture: five faces centred on the z axis.
\*   1  a square, z = 1         2  the opposite square of the cube, z = -1
\*   3  a triangle              4  a square with every edge under the threshold
\*   5  a square in the plane x = 0 (normal along x)
FixtureCo ==
    << <<1, 1, 1>>, <<-1, 1, 1>>, <<-1, -1, 1>>, <<1, -1, 1>>,
       <<1, 1, -1>>, <<1, -1, -1>>, <<-1, -1, -1>>, <<-1, 1, -1>>,
       <<2, 0, 6>>, <<-1, 1, 6>>, <<-1, -1, 6>>,
       <<1, 0, -6>>, <<0, 1, -6>>, <<-1, 0, -6>>, <<0, -1, -6>>,
       <<0, 1, 11>>, <<0, -1, 11>>, <<0, -1, 9>>, <<0, 1, 9>> >>

FixtureFaces ==
    << [verts |-> <<1, 2, 3, 4>>,             normal |-> <<0, 0, 1>>],
       [verts |-> <<5, 6, 7, 8>>,             normal |-> <<0, 0, -1>>],
       [verts |-> <<9, 10, 11>>,              normal |-> <<0, 0, 1>>],
       [verts |-> <<12, 13, 14, 15>>,         normal |-> <<0, 0, 1>>],
       [verts |-> <<16, 17, 18, 19>>,         normal |-> <<1, 0, 0>>] >>

Mesh0 ==
    [verts |-> [k \in 1 .. Len(FixtureCo) |-> LatticeVertex(FixtureCo[k])],
     faces |-> FixtureFaces,
     live  |-> 1 .. Len(FixtureFaces)]

\* face.verts, face.normal
FaceVerts(m, face) == m.faces[face].verts

FaceNormal(m, face) == m.faces[face].normal

\* vertex.co of a vertex of the fixture
Co(m, vertex) == m.verts[vertex].co

get_centroid(m, face) ==
    VDiv(SumCo([k \in 1 .. Len(FaceVerts(m, face)) |-> Co(m, FaceVerts(m, face)[k])]),
         Len(FaceVerts(m, face)))

----------------------------------------------------------------------------
(* make_handle, one step per block of the function.  mh is its frame: the  *)
(* arguments, the position pc, the locals, and the exception raised.       *)

IdleFrame ==
    [pc |-> "idle", raised |-> "",
     face_1 |-> 0, vertex_1 |-> 0, face_2 |-> 0, vertex_2 |-> 0,
     num_segments |-> 0, weight |-> 0, twists |-> 0,
     normal_1 |-> Zero3, normal_2 |-> Zero3,
     centroid_1 |-> Zero3, centroid_2 |-> Zero3,
     original_vertices_1 |-> <<>>, original_vertices_2 |-> <<>>,
     points_1 |-> <<>>, points_2 |-> <<>>,
     rotation_plane_normal |-> Zero3,
     vertices_1 |-> <<>>, vertices_2 |-> <<>>,
     x_axis |-> Zero3, y_axis |-> Zero3,
     points_1_polar |-> <<>>, points_2_polar |-> <<>>,
     points_1_polar_projected |-> <<>>, points_2_polar_projected |-> <<>>,
     rings |-> <<>>, i |-> 0]

NoCall == [fn |-> "none"]

\* make_handle was called by main() of make_handle.py, on the cube.
OnCube == call.fn = "make_handle.main"

Init ==
    /\ mesh = Mesh0
    /\ mh = IdleFrame
    /\ call = NoCall

SegmentChoices == (1 .. MaxSmallSegments) \cup {DefaultSegments}

\* The weights a caller passes: the operator's default and main()'s.
WeightChoices == {DefaultWeight, MainWeight}

TwistChoices == (-MaxTwists) .. MaxTwists

\* The vertices a caller may pass as the start vertex of `face`: those of
\* the face, and one of the other face.
VertexChoices(face, other) ==
    {FaceVerts(mesh, face)[k] : k \in DOMAIN FaceVerts(mesh, face)}
        \cup {FaceVerts(mesh, other)[1]}

\* def make_handle(mesh, face_1, vertex_1, face_2, vertex_2, num_segments, weight, twists=0)
\* A call on the fixture, with two different faces, as every caller in the
\* repository passes them; neither main() is running.
Call ==
    /\ mh.pc = "idle"
    /\ call = NoCall
    /\ \E face_1 \in mesh.live, face_2 \in mesh.live :
         /\ face_1 # face_2
         /\ \E vertex_1 \in VertexChoices(face_1, face_2),
               vertex_2 \in VertexChoices(face_2, face_1),
               num_segments \in SegmentChoices,
               weight \in WeightChoices,
               twists \in TwistChoices :
              mh' = [mh EXCEPT !.pc = "validate",
                               !.face_1 = face_1, !.vertex_1 = vertex_1,
                               !.face_2 = face_2, !.vertex_2 = vertex_2,
                               !.num_segments = num_segments,
                               !.weight = weight, !.twists = twists]
    /\ UNCHANGED <<mesh, call>>

\* A validation that looks at vertex 2 first.
ValidationError_vertex_2_first(m, face_1, vertex_1, face_2, vertex_2) ==
    IF ~Contains(FaceVerts(m, face_2), vertex_2) THEN "Vertex 2 not in face 2"
    ELSE IF ~Contains(FaceVerts(m, face_1), vertex_1) THEN "Vertex 1 not in face 1"
    ELSE ""

\* The exception of lines 152-155, "" when both vertices are accepted.
ValidationError(m, face_1, vertex_1, face_2, vertex_2) ==
    IF ~Contains(FaceVerts(m, face_1), vertex_1) THEN "Vertex 1 not in face 1"
    ELSE IF ~Contains(FaceVerts(m, face_2), vertex_2) THEN "Vertex 2 not in face 2"
    ELSE ""

Validate ==
    /\ mh.pc = "validate"
    /\ LET error == ValidationError(mesh, mh.face_1, mh.vertex_1, mh.face_2, mh.vertex_2)
       IN  mh' = IF error # ""
                 THEN [mh EXCEPT !.pc = "raised", !.raised = error]
                 ELSE [mh EXCEPT !.pc = "align"]
    /\ UNCHANGED <<mesh, call>>

\* Lines 163-165: face 1's ring, turned so that vertex_1 comes first.
OriginalVertices1(verts, vertex_1) ==
    LET original_vertices_1 == verts
        shift_1 == IndexOf(original_vertices_1, vertex_1)
    IN  rotate_list(original_vertices_1, shift_1)

\* Face 2's ring turned but not reversed.
OriginalVertices2_not_reversed(verts, vertex_2) ==
    LET original_vertices_2 == verts
        shift_2 == IndexOf(original_vertices_2, vertex_2)
    IN  rotate_list(original_vertices_2, shift_2)

\* Lines 167-170: face 2's ring, reversed, then turned so that vertex_2 comes first.
OriginalVertices2(verts, vertex_2) ==
    LET original_vertices_2 == Reversed(verts)
        shift_2 == IndexOf(original_vertices_2, vertex_2)
    IN  rotate_list(original_vertices_2, shift_2)

\* Lines 173-174: [vertex.co - centroid for vertex in original_vertices]
CentredPoints(m, original_vertices, centroid) ==
    [k \in 1 .. Len(original_vertices) |-> VSub(Co(m, original_vertices[k]), centroid)]

\* A padding that repeats the last point of the shorter list.
PaddedPoints_with_last(points_1, points_2) ==
    IF Len(points_1) > Len(points_2)
    THEN <<points_1,
           points_2 \o Repeat(At(points_2, Len(points_2) - 1),
                              Len(points_1) - Len(points_2))>>
    ELSE IF Len(points_2) > Len(points_1)
    THEN <<points_1 \o Repeat(At(points_1, Len(points_1) - 1),
                              Len(points_2) - Len(points_1)),
           points_2>>
    ELSE <<points_1, points_2>>

\* Lines 177-180: the two lists after the shorter one is extended.
PaddedPoints(points_1, points_2) ==
    IF Len(points_1) > Len(points_2)
    THEN <<points_1,
           points_2 \o Repeat(At(points_2, 0), Len(points_1) - Len(points_2))>>
    ELSE IF Len(points_2) > Len(points_1)
    THEN <<points_1 \o Repeat(At(points_1, 0), Len(points_2) - Len(points_1)),
           points_2>>
    ELSE <<points_1, points_2>>

AlignRings ==
    /\ mh.pc = "align"
    /\ ~OnCube
    /\ LET normal_1 == FaceNormal(mesh, mh.face_1)
           normal_2 == VNeg(FaceNormal(mesh, mh.face_2))
           centroid_1 == get_centroid(mesh, mh.face_1)
           centroid_2 == get_centroid(mesh, mh.face_2)
           original_vertices_1 == OriginalVertices1(FaceVerts(mesh, mh.face_1), mh.vertex_1)
           original_vertices_2 == OriginalVertices2(FaceVerts(mesh, mh.face_2), mh.vertex_2)
           points_1 == CentredPoints(mesh, original_vertices_1, centroid_1)
           points_2 == CentredPoints(mesh, original_vertices_2, centroid_2)
           padded == PaddedPoints(points_1, points_2)
       IN  mh' = [mh EXCEPT !.pc = "basis",
                            !.normal_1 = normal_1, !.normal_2 = normal_2,
                            !.centroid_1 = centroid_1, !.centroid_2 = centroid_2,
                            !.original_vertices_1 = original_vertices_1,
                            !.original_vertices_2 = original_vertices_2,
                            !.points_1 = padded[1],
                            !.points_2 = padded[2]]
    /\ UNCHANGED <<mesh, call>>

\* An edge taken to the cyclic successor instead of the predecessor.
Displacement_to_successor(vertices_1, i) ==
    VSub(At(vertices_1, (i + 1) % Len(vertices_1)), At(vertices_1, i))

\* Line 195
Displacement(vertices_1, i) ==
    VSub(At(vertices_1, (i - 1) % Len(vertices_1)), At(vertices_1, i))

\* Lines 194-200: the index at which the scan breaks, -1 when it runs to
\* the else branch.
FirstEdge(vertices_1) ==
    LET long == {i \in Range0(Len(vertices_1)) :
                    LengthAtLeast(Length(Displacement(vertices_1, i)),
                                  EdgeThresholdDoubled)}
    IN  IF long = {} THEN -1
        ELSE CHOOSE i \in long : \A j \in long : i <= j

ChooseBasis ==
    /\ mh.pc = "basis"
    /\ ~OnCube
    /\ LET rotation_plane_normal == normalized(VSub(mh.centroid_2, mh.centroid_1))
           vertices_1 == rotate_polygon_to_new_normal(
                             mh.points_1, mh.normal_1, rotation_plane_normal)
           vertices_2 == rotate_polygon_to_new_normal(
                             mh.points_2, mh.normal_2, rotation_plane_normal)
           i == FirstEdge(vertices_1)
           x_axis == normalized(Displacement(vertices_1, i))
           y_axis == Cross(rotation_plane_normal, x_axis)
           frame == [mh EXCEPT !.rotation_plane_normal = rotation_plane_normal,
                               !.vertices_1 = vertices_1,
                               !.vertices_2 = vertices_2]
       IN  mh' = IF i = -1
                 THEN [frame EXCEPT
                          !.pc = "raised",
                          !.raised = "All the vertices in one of the faces are bunched together"]
                 ELSE [frame EXCEPT !.pc = "polar",
                                    !.x_axis = x_axis, !.y_axis = y_axis]
    /\ UNCHANGED <<mesh, call>>

\* Lines 205-206.  The vertices and the basis come out of sums, a rotation
\* and a normalisation: they are not exact.  The two lists as returned are
\* kept in the frame beside the locals, which line 213 assigns again.
ProjectPolar ==
    /\ mh.pc = "polar"
    /\ ~OnCube
    /\ \E points_1_polar \in
              convert_polygon_to_polar(mh.vertices_1, mh.x_axis, mh.y_axis, FALSE),
          points_2_polar \in
              convert_polygon_to_polar(mh.vertices_2, mh.x_axis, mh.y_axis, FALSE) :
         mh' = [mh EXCEPT
                   !.pc = "untwist",
                   !.points_1_polar = points_1_polar,
                   !.points_2_polar = points_2_polar,
                   !.points_1_polar_projected = points_1_polar,
                   !.points_2_polar_projected = points_2_polar]
    /\ UNCHANGED <<mesh, call>>

\* An untwist step that decides the correction after the twists are added.
Untwisted_twist_first(points_1_polar, points_2_polar, twists, rounds_up) ==
    LET twisted ==
            [k \in 1 .. Len(points_2_polar) |->
                [radius |-> points_2_polar[k].radius,
                 angle |-> AddTurns(points_2_polar[k].angle, twists)]]
    IN  IF ExceedsPi(At(twisted, 0).angle, At(points_1_polar, 0).angle, rounds_up)
        THEN [k \in 1 .. Len(twisted) |->
                 [radius |-> twisted[k].radius,
                  angle |-> AddTurns(twisted[k].angle, -1)]]
        ELSE twisted

\* Lines 211-217: the new points_2_polar; rounds_up is the rounding of the
\* comparison of line 211 when the two first angles are pi apart.
Untwisted(points_1_polar, points_2_polar, twists, rounds_up) ==
    LET corrected ==
            IF ExceedsPi(At(points_2_polar, 0).angle, At(points_1_polar, 0).angle,
                         rounds_up)
            THEN [k \in 1 .. Len(points_2_polar) |->
                     [radius |-> points_2_polar[k].radius,
                      angle |-> AddTurns(points_2_polar[k].angle, -1)]]
            ELSE points_2_polar
    IN  [k \in 1 .. Len(corrected) |->
            [radius |-> corrected[k].radius,
             angle |-> AddTurns(corrected[k].angle, twists)]]

\* Lines 211-223
Untwist ==
    /\ mh.pc = "untwist"
    /\ \E rounds_up \in BOOLEAN :
         mh' = [mh EXCEPT
                   !.pc = "rings",
                   !.points_2_polar =
                       Untwisted(mh.points_1_polar, mh.points_2_polar, mh.twists,
                                 rounds_up),
                   !.rings = <<mh.original_vertices_1>>,
                   !.i = 1]
    /\ UNCHANGED <<mesh, call>>

\* A ring count that takes t = 1 for an interior ring too.
InteriorRings_with_last(num_segments) == num_segments

\* Line 225: len(ts), ts = [i / num_segments for i in range(1, num_segments)]
InteriorRings(num_segments) == num_segments - 1

\* Lines 240-246 for one ring: the vertices created for the blended polygon,
\* around the ring's centroid (over n^3) and turned to its normal.
RingVertices(polygon_polar, centroid, normal, n) ==
    [k \in 1 .. Len(polygon_polar) |->
        [co |-> centroid.lattice, co_unit |-> centroid.unit, den |-> n * n * n,
         offset |-> [radius |-> polygon_polar[k].radius,
                     angle  |-> polygon_polar[k].angle,
                     normal |-> normal]]]

RECURSIVE CreateVerts(_, _)
CreateVerts(m, vertices) ==
    IF vertices = <<>> THEN m
    ELSE CreateVerts(create_vert(m, Head(vertices)), Tail(vertices))

\* Lines 226-247, one iteration: t = ts[i - 1] = i / num_segments.
CreateRing ==
    /\ mh.pc = "rings"
    /\ ~OnCube
    /\ mh.i <= InteriorRings(mh.num_segments)
    /\ \E absorbed \in BOOLEAN :
       LET centroid == get_handle_centroid(mh.centroid_1, mh.normal_1, mh.centroid_2,
                           mh.normal_2, mh.i, mh.num_segments, mh.weight, absorbed)
           normal == get_handle_normal(mh.centroid_1, mh.normal_1, mh.centroid_2,
                         mh.normal_2, mh.i, mh.num_segments, mh.weight, absorbed)
           blend == interpolate_polar_polygons(
                        mh.points_1_polar, mh.points_2_polar, mh.i, mh.num_segments)
           polygon == RingVertices(blend.result, centroid, normal, mh.num_segments)
           segment == [k \in 1 .. Len(polygon) |-> Len(mesh.verts) + k]
       IN  IF blend.raised # ""
           THEN /\ mh' = [mh EXCEPT !.pc = "raised", !.raised = blend.raised]
                /\ mesh' = mesh
           ELSE /\ mesh' = CreateVerts(mesh, polygon)
                /\ mh' = [mh EXCEPT !.rings = Append(mh.rings, segment),
                                    !.i = mh.i + 1]
    /\ UNCHANGED call

\* Line 250
AppendLastRing ==
    /\ mh.pc = "rings"
    /\ mh.i > InteriorRings(mh.num_segments)
    /\ mh' = [mh EXCEPT !.pc = "stitch",
                        !.rings = Append(mh.rings, mh.original_vertices_2),
                        !.i = 0]
    /\ UNCHANGED <<mesh, call>>

\* Lines 253-254, one iteration
StitchPair ==
    /\ mh.pc = "stitch"
    /\ mh.i < Len(mh.rings) - 1
    /\ mesh' = CreateAll(mesh,
                   connect_vertices_with_prism(At(mh.rings, mh.i), At(mh.rings, mh.i + 1)))
    /\ mh' = [mh EXCEPT !.i = mh.i + 1]
    /\ UNCHANGED call

\* Line 257
DeleteFace1 ==
    /\ mh.pc = "stitch"
    /\ mh.i >= Len(mh.rings) - 1
    /\ mesh' = delete_face(mesh, mh.face_1)
    /\ mh' = [mh EXCEPT !.pc = "delete_2"]
    /\ UNCHANGED call

\* Line 258
DeleteFace2 ==
    /\ mh.pc = "delete_2"
    /\ mesh' = delete_face(mesh, mh.face_2)
    /\ mh' = [mh EXCEPT !.pc = "done"]
    /\ UNCHANGED call

----------------------------------------------------------------------------
(* main() of main.py, one step per block of the script.  Its frame is kept *)
(* in `call`: the position pc, the locals, and the exception raised.  The  *)
(* script computes on the cube it adds, whose coordinates are whole units: *)
(* co_unit holds them, and co, the lattice part, is zero.                  *)

\* Line 153: n = 10
main_n == 10

\* Line 152: weight = 30
main_weight == 30

\* bpy.ops.mesh.primitive_cube_add(): the corners of the cube of side 2
\* about the origin, and its six faces with their outward normals.
CubeCo ==
    << <<-1, -1, -1>>, <<-1, -1, 1>>, <<-1, 1, -1>>, <<-1, 1, 1>>,
       <<1, -1, -1>>, <<1, -1, 1>>, <<1, 1, -1>>, <<1, 1, 1>> >>

CubeFaces ==
    << [verts |-> <<1, 2, 4, 3>>, normal |-> <<-1, 0, 0>>],
       [verts |-> <<3, 4, 8, 7>>, normal |-> <<0, 1, 0>>],
       [verts |-> <<7, 8, 6, 5>>, normal |-> <<1, 0, 0>>],
       [verts |-> <<5, 6, 2, 1>>, normal |-> <<0, -1, 0>>],
       [verts |-> <<3, 7, 5, 1>>, normal |-> <<0, 0, -1>>],
       [verts |-> <<8, 4, 2, 6>>, normal |-> <<0, 0, 1>>] >>

\* Lines 115-122: the scene is emptied and holds the cube alone.
CubeMesh ==
    [verts |-> [k \in 1 .. Len(CubeCo) |->
                   [co |-> Zero3, co_unit |-> CubeCo[k], den |-> 1, offset |-> NoOffset]],
     faces |-> CubeFaces,
     live  |-> 1 .. Len(CubeFaces)]

MainAt(pc) == call.fn = "main" /\ call.pc = pc

\* Lines 115-126.  faces[0] and faces[1]: the order of the faces of the
\* cube is the host's, so that the two may be any two faces of the cube.
MainStart ==
    /\ call = NoCall
    /\ mh.pc = "idle"
    /\ mesh' = CubeMesh
    /\ \E face_1 \in 1 .. Len(CubeFaces), face_2 \in 1 .. Len(CubeFaces) :
         /\ face_1 # face_2
         /\ call' =
                [fn |-> "main", pc |-> "align", raised |-> "",
                 face_1 |-> face_1, face_2 |-> face_2,
                 normal_1 |-> Zero3, normal_2 |-> Zero3,
                 centroid_1 |-> Zero3, centroid_2 |-> Zero3,
                 points_1 |-> <<>>, points_2 |-> <<>>,
                 rotation_plane_normal |-> SurdVector(Zero3),
                 vertices_1 |-> <<>>, vertices_2 |-> <<>>,
                 x_axis |-> SurdVector(Zero3), y_axis |-> SurdVector(Zero3),
                 points_1_polar |-> <<>>, points_2_polar |-> <<>>,
                 handle_vertices |-> <<>>, i |-> 0]
    /\ UNCHANGED mh

\* vertex.co of a vertex of the cube, in units
CoUnit(m, vertex) == m.verts[vertex].co_unit

\* main.py, lines 30-35, on the cube: the centroid of a face is a point of
\* whole units.
get_centroid_main(m, face) ==
    VDiv(SumCo([k \in 1 .. Len(FaceVerts(m, face)) |-> CoUnit(m, FaceVerts(m, face)[k])]),
         Len(FaceVerts(m, face)))

\* Lines 128-137
MainAlign ==
    /\ MainAt("align")
    /\ LET normal_1 == FaceNormal(mesh, call.face_1)
           normal_2 == VNeg(FaceNormal(mesh, call.face_2))
           centroid_1 == get_centroid_main(mesh, call.face_1)
           centroid_2 == get_centroid_main(mesh, call.face_2)
           \* lines 133-134: [vertex.co - centroid for vertex in face.verts]
           Centred(face, centroid) ==
               [k \in 1 .. Len(FaceVerts(mesh, face)) |->
                   VSub(CoUnit(mesh, FaceVerts(mesh, face)[k]), centroid)]
           points_1 == Centred(call.face_1, centroid_1)
           points_2 == Reversed(Centred(call.face_2, centroid_2))
           frame == [call EXCEPT !.normal_1 = normal_1, !.normal_2 = normal_2,
                                 !.centroid_1 = centroid_1, !.centroid_2 = centroid_2,
                                 !.points_1 = points_1, !.points_2 = points_2]
       IN  call' = IF Len(points_1) # Len(points_2)
                   THEN [frame EXCEPT !.pc = "raised",
                                      !.raised = "Polygons must have same number of sides"]
                   ELSE [frame EXCEPT !.pc = "basis"]
    /\ UNCHANGED <<mesh, mh>>

\* Lines 138-142
MainChooseBasis ==
    /\ MainAt("basis")
    /\ \E rotation_plane_normal \in
              {SurdNormalized(SurdVector(VSub(call.centroid_2, call.centroid_1)))} :
         \E vertices_1 \in {rotate_polygon_to_new_normal_exact(
                                [k \in 1 .. Len(call.points_1) |->
                                    SurdVector(call.points_1[k])],
                                SurdVector(call.normal_1),
                                rotation_plane_normal)},
            vertices_2 \in {rotate_polygon_to_new_normal_exact(
                                [k \in 1 .. Len(call.points_2) |->
                                    SurdVector(call.points_2[k])],
                                SurdVector(call.normal_2),
                                rotation_plane_normal)} :
           \E x_axis \in {SurdNormalized(SurdVSub(At(vertices_1, Len(vertices_1) - 1),
                                                  At(vertices_1, 0)))} :
             call' = [call EXCEPT !.pc = "polar",
                                  !.rotation_plane_normal = rotation_plane_normal,
                                  !.vertices_1 = vertices_1,
                                  !.vertices_2 = vertices_2,
                                  !.x_axis = x_axis,
                                  !.y_axis = SurdCross(rotation_plane_normal, x_axis)]
    /\ UNCHANGED <<mesh, mh>>

\* Lines 143-144.  The vertices and the basis come out of a rotation and a
\* normalisation: they are not exact.
MainProjectPolar ==
    /\ MainAt("polar")
    /\ \E points_1_polar \in
              convert_polygon_to_polar_main(call.vertices_1, call.x_axis, call.y_axis, FALSE),
          points_2_polar \in
              convert_polygon_to_polar_main(call.vertices_2, call.x_axis, call.y_axis, FALSE) :
         call' = [call EXCEPT !.pc = "untwist",
                              !.points_1_polar = points_1_polar,
                              !.points_2_polar = points_2_polar]
    /\ UNCHANGED <<mesh, mh>>

\* Lines 145-154.  Lines 145-148 give the new points_2_polar; rounds_up is
\* the rounding of the comparison of line 145 when the two first angles are
\* pi apart.
MainUntwist ==
    /\ MainAt("untwist")
    /\ \E rounds_up \in BOOLEAN :
         call' = [call EXCEPT
                     !.pc = "rings",
                     !.points_2_polar =
                         IF ExceedsPi(At(call.points_2_polar, 0).angle,
                                      At(call.points_1_polar, 0).angle, rounds_up)
                         THEN [k \in 1 .. Len(call.points_2_polar) |->
                                  [radius |-> call.points_2_polar[k].radius,
                                   angle |-> AddTurns(call.points_2_polar[k].angle, -1)]]
                         ELSE call.points_2_polar,
                     !.handle_vertices = <<FaceVerts(mesh, call.face_1)>>,
                     !.i = 1]
    /\ UNCHANGED <<mesh, mh>>

\* Line 154: len(ts), ts = [i / (n - 1) for i in range(1, n - 1)]
InteriorRings_main(n) == n - 2

\* main.py, lines 90-99: the centroid of the ring at t = i/n, over n^3; the
\* centroids and the normals are all in units.
get_handle_centroid_main(centroid_1, normal_1, centroid_2, normal_2, i, n, weight) ==
    VSub(VAdd(VAdd(VScale(hermite_1(i, n), centroid_1),
                   VScale(hermite_1(n - i, n), centroid_2)),
              VScale(weight * hermite_2(i, n), normal_1)),
         VScale(weight * hermite_2(n - i, n), normal_2))

\* main.py, lines 102-111: the derivative at t = i/n, over n^2, and of it
\* the shortest vector of whole units of its direction.
get_handle_normal_main(centroid_1, normal_1, centroid_2, normal_2, i, n, weight) ==
    normalized(
        VSub(VAdd(VAdd(VScale(hermite_1_derivative(i, n), centroid_1),
                       VScale(-hermite_1_derivative(n - i, n), centroid_2)),
                  VScale(weight * hermite_2_derivative(i, n), normal_1)),
             VScale(weight * (-hermite_2_derivative(n - i, n)), normal_2)))

\* Lines 155-170, one iteration: t = ts[i - 1] = i / (n - 1).  The blend
\* is that of interpolate_polar_polygons, lines 80-87, which main.py and
\* make_handle.py share word for word.
MainCreateRing ==
    /\ MainAt("rings")
    /\ call.i <= InteriorRings_main(main_n)
    /\ LET centroid == get_handle_centroid_main(call.centroid_1, call.normal_1,
                           call.centroid_2, call.normal_2, call.i, main_n - 1,
                           main_weight)
           normal == get_handle_normal_main(call.centroid_1, call.normal_1,
                         call.centroid_2, call.normal_2, call.i, main_n - 1,
                         main_weight)
           blend == interpolate_polar_polygons(
                        call.points_1_polar, call.points_2_polar, call.i, main_n - 1)
           \* lines 159-168: the vertices created for the blended polygon
           \* (radii in units), around the ring's centroid (over (n - 1)^3)
           \* and turned to its normal
           polygon ==
               [k \in 1 .. Len(blend.result) |->
                   [co |-> Zero3, co_unit |-> centroid,
                    den |-> (main_n - 1) * (main_n - 1) * (main_n - 1),
                    offset |-> [radius |-> blend.result[k].radius,
                                angle  |-> blend.result[k].angle,
                                normal |-> [lattice |-> Zero3, unit |-> normal]]]]
           segment == [k \in 1 .. Len(polygon) |-> Len(mesh.verts) + k]
       IN  IF blend.raised # ""
           THEN /\ call' = [call EXCEPT !.pc = "raised", !.raised = blend.raised]
                /\ mesh' = mesh
           ELSE /\ mesh' = CreateVerts(mesh, polygon)
                /\ call' = [call EXCEPT
                               !.handle_vertices = Append(call.handle_vertices, segment),
                               !.i = call.i + 1]
    /\ UNCHANGED mh

\* Line 172
MainAppendLastRing ==
    /\ MainAt("rings")
    /\ call.i > InteriorRings_main(main_n)
    /\ call' = [call EXCEPT
                   !.pc = "stitch",
                   !.handle_vertices =
                       Append(call.handle_vertices,
                              Reversed(FaceVerts(mesh, call.face_2))),
                   !.i = 0]
    /\ UNCHANGED <<mesh, mh>>

\* Lines 174-184, one iteration: one quadrilateral for every vertex of
\* segment_1 (lines 177-184).
MainStitchPair ==
    /\ MainAt("stitch")
    /\ call.i < Len(call.handle_vertices) - 1
    /\ LET segment_1 == At(call.handle_vertices, call.i)
           segment_2 == At(call.handle_vertices, call.i + 1)
       IN  mesh' = CreateAll(mesh,
                       [k \in 1 .. Len(segment_1) |->
                           LET j == k - 1
                           IN  << At(segment_1, j),
                                  At(segment_1, (j + 1) % Len(segment_1)),
                                  At(segment_2, (j + 1) % Len(segment_2)),
                                  At(segment_2, j) >>])
    /\ call' = [call EXCEPT !.i = call.i + 1]
    /\ UNCHANGED mh

\* Line 186
MainDeleteFace1 ==
    /\ MainAt("stitch")
    /\ call.i >= Len(call.handle_vertices) - 1
    /\ mesh' = delete_face(mesh, call.face_1)
    /\ call' = [call EXCEPT !.pc = "delete_2"]
    /\ UNCHANGED mh

\* Lines 187-190
MainDeleteFace2 ==
    /\ MainAt("delete_2")
    /\ mesh' = delete_face(mesh, call.face_2)
    /\ call' = [call EXCEPT !.pc = "done"]
    /\ UNCHANGED mh

----------------------------------------------------------------------------
(* main() of make_handle.py: the cube, one face of which gives way to two  *)
(* triangles, and one call of make_handle from a square of the cube to the *)
(* first triangle.  make_handle runs in the frame mh as everywhere; the    *)
(* steps that compute with coordinates compute on the cube exactly, in     *)
(* whole units and numbers (r + s * sqrt(root)) / d.                       *)

\* mesh.faces.new(verts): a new face on the given vertices, its normal not
\* computed yet.
faces_new(m, verts) ==
    [m EXCEPT !.faces = Append(m.faces, [verts |-> verts, normal |-> Zero3]),
              !.live = m.live \cup {Len(m.faces) + 1}]

\* mesh.normal_update(): every face of the mesh gets the unit normal of the
\* plane of its first three vertices, which for the faces of the cube and
\* the triangles on them lies along a coordinate axis.
normal_update(m) ==
    [m EXCEPT !.faces =
        [f \in 1 .. Len(m.faces) |->
            IF f \notin m.live THEN m.faces[f]
            ELSE LET verts == m.faces[f].verts
                     first == m.verts[verts[1]].co_unit
                     second == m.verts[verts[2]].co_unit
                     third == m.verts[verts[3]].co_unit
                 IN  [m.faces[f] EXCEPT
                         !.normal = normalized(Cross(VSub(second, first),
                                                     VSub(third, second)))]]]

\* Lines 348-373, up to the call of make_handle.  faces[0] and faces[1]: the
\* order of the faces of the cube is the host's, so that the two may be any
\* two faces of the cube.
MakeHandleMain ==
    /\ call = NoCall
    /\ mh.pc = "idle"
    /\ \E face_to_remove \in 1 .. Len(CubeFaces), face_1 \in 1 .. Len(CubeFaces) :
         /\ face_to_remove # face_1
         /\ LET vertices == FaceVerts(CubeMesh, face_to_remove)
                removed == delete_face(CubeMesh, face_to_remove)
                face_2 == Len(removed.faces) + 1
                triangles ==
                    faces_new(faces_new(removed,
                                        <<At(vertices, 0), At(vertices, 1), At(vertices, 2)>>),
                              <<At(vertices, 0), At(vertices, 2), At(vertices, 3)>>)
                updated == normal_update(triangles)
                vertex_1 == At(FaceVerts(updated, face_1), 0)
                vertex_2 == At(FaceVerts(updated, face_2), 0)
            IN  /\ mesh' = updated
                /\ mh' = [IdleFrame EXCEPT !.pc = "validate",
                                           !.face_1 = face_1, !.vertex_1 = vertex_1,
                                           !.face_2 = face_2, !.vertex_2 = vertex_2,
                                           !.num_segments = DefaultSegments,
                                           !.weight = MainWeight, !.twists = 0]
    /\ call' = [fn |-> "make_handle.main", result |-> ""]

\* Lines 42-47 on the cube: the sum of the corners over their number.
get_centroid_exact(m, face) ==
    SurdVScale(Surd(1, 0, Len(FaceVerts(m, face)), 0),
               SurdVector(SumCo([k \in 1 .. Len(FaceVerts(m, face)) |->
                                    CoUnit(m, FaceVerts(m, face)[k])])))

\* Lines 157-180 on the cube
AlignRingsExact ==
    /\ mh.pc = "align"
    /\ OnCube
    /\ LET normal_1 == FaceNormal(mesh, mh.face_1)
           normal_2 == VNeg(FaceNormal(mesh, mh.face_2))
           centroid_1 == get_centroid_exact(mesh, mh.face_1)
           centroid_2 == get_centroid_exact(mesh, mh.face_2)
           original_vertices_1 == OriginalVertices1(FaceVerts(mesh, mh.face_1), mh.vertex_1)
           original_vertices_2 == OriginalVertices2(FaceVerts(mesh, mh.face_2), mh.vertex_2)
           \* lines 173-174: [vertex.co - centroid for vertex in original_vertices]
           Centred(original_vertices, centroid) ==
               [k \in 1 .. Len(original_vertices) |->
                   SurdVSub(SurdVector(CoUnit(mesh, original_vertices[k])), centroid)]
           points_1 == Centred(original_vertices_1, centroid_1)
           points_2 == Centred(original_vertices_2, centroid_2)
           padded == PaddedPoints(points_1, points_2)
       IN  mh' = [mh EXCEPT !.pc = "basis",
                            !.normal_1 = normal_1, !.normal_2 = normal_2,
                            !.centroid_1 = centroid_1, !.centroid_2 = centroid_2,
                            !.original_vertices_1 = original_vertices_1,
                            !.original_vertices_2 = original_vertices_2,
                            !.points_1 = padded[1],
                            !.points_2 = padded[2]]
    /\ UNCHANGED <<mesh, call>>

\* Line 195
DisplacementExact(vertices_1, i) ==
    SurdVSub(At(vertices_1, (i - 1) % Len(vertices_1)), At(vertices_1, i))

\* Lines 194-200: the index at which the scan breaks, -1 when it runs to
\* the else branch.  The squared length of an edge is a fraction of two
\* integers below 2^31: it is 1e-20 or more unless it is zero.
FirstEdgeExact(vertices_1) ==
    LET long == {i \in Range0(Len(vertices_1)) :
                    SurdSign(SurdLengthSquared(DisplacementExact(vertices_1, i))) > 0}
    IN  IF long = {} THEN -1
        ELSE CHOOSE i \in long : \A j \in long : i <= j

\* Lines 183-201 on the cube
ChooseBasisExact ==
    /\ mh.pc = "basis"
    /\ OnCube
    /\ \E rotation_plane_normal \in
              {SurdNormalized(SurdVSub(mh.centroid_2, mh.centroid_1))} :
         \E vertices_1 \in {rotate_polygon_to_new_normal_exact(
                                mh.points_1, SurdVector(mh.normal_1),
                                rotation_plane_normal)},
            vertices_2 \in {rotate_polygon_to_new_normal_exact(
                                mh.points_2, SurdVector(mh.normal_2),
                                rotation_plane_normal)} :
           \E i \in {FirstEdgeExact(vertices_1)} :
             LET x_axis == SurdNormalized(DisplacementExact(vertices_1, i))
                 frame == [mh EXCEPT !.rotation_plane_normal = rotation_plane_normal,
                                     !.vertices_1 = vertices_1,
                                     !.vertices_2 = vertices_2]
             IN  mh' = IF i = -1
                       THEN [frame EXCEPT
                                !.pc = "raised",
                                !.raised =
                                    "All the vertices in one of the faces are bunched together"]
                       ELSE [frame EXCEPT
                                !.pc = "polar",
                                !.x_axis = x_axis,
                                !.y_axis = SurdCross(rotation_plane_normal, x_axis)]
    /\ UNCHANGED <<mesh, call>>

\* The loop of convert_polygon_to_polar (make_handle.py), from the running
\* last_angle on: the lists it can return.  `angles` are the values the
\* angle of `vertex` can have after the loop of line 78, the vertices and
\* the axes being the results of rotations: where the angle equals
\* last_angle in exact arithmetic and was not computed from the same vertex,
\* the computed angle is last_angle or next to it on either side, and below
\* it one more turn is added.
RECURSIVE PolarFromExact(_, _, _, _, _)
PolarFromExact(vertices, x_axis, y_axis, last_angle, last_vertex) ==
    IF vertices = <<>> THEN {<<>>}
    ELSE LET vertex == Head(vertices)
             cos_angle == SurdDot(vertex, x_axis)
             sin_angle == SurdDot(vertex, y_axis)
             radius == SurdLength(vertex)
             unwrapped == Unwrap(SurdAtan2(sin_angle, cos_angle), last_angle)
             angles == IF unwrapped = last_angle /\ vertex # last_vertex
                       THEN {unwrapped, AddTurns(unwrapped, 1)}
                       ELSE {unwrapped}
         IN  UNION {
                 {<<[radius |-> radius, angle |-> angle]>> \o rest :
                     rest \in PolarFromExact(Tail(vertices), x_axis, y_axis, angle,
                                             vertex)} :
                 angle \in angles}

\* Lines 68-82 on vectors of numbers (r + s * sqrt(root)) / d
convert_polygon_to_polar_exact(vertices, x_axis, y_axis) ==
    PolarFromExact(vertices, x_axis, y_axis, ZeroAngle, NoVertex)

\* Lines 205-206 on the cube
ProjectPolarExact ==
    /\ mh.pc = "polar"
    /\ OnCube
    /\ \E points_1_polar \in
              convert_polygon_to_polar_exact(mh.vertices_1, mh.x_axis, mh.y_axis),
          points_2_polar \in
              convert_polygon_to_polar_exact(mh.vertices_2, mh.x_axis, mh.y_axis) :
         mh' = [mh EXCEPT
                   !.pc = "untwist",
                   !.points_1_polar = points_1_polar,
                   !.points_2_polar = points_2_polar,
                   !.points_1_polar_projected = points_1_polar,
                   !.points_2_polar_projected = points_2_polar]
    /\ UNCHANGED <<mesh, call>>

\* Lines 103-112 on the cube: the centroid of the ring at t = i/n, every
\* term in whole units or fractions of them.
get_handle_centroid_exact(centroid_1, normal_1, centroid_2, normal_2, i, n, weight) ==
    SurdVSub(
        SurdVAdd(
            SurdVAdd(SurdVScale(Surd(hermite_1(i, n), 0, n * n * n, 0), centroid_1),
                     SurdVScale(Surd(hermite_1(n - i, n), 0, n * n * n, 0), centroid_2)),
            SurdVScale(Surd(weight * hermite_2(i, n), 0, n * n * n, 0),
                       SurdVector(normal_1))),
        SurdVScale(Surd(weight * hermite_2(n - i, n), 0, n * n * n, 0),
                   SurdVector(normal_2)))

\* A vector of fractions as a vector of integers over one denominator.
OverDenominator(v) ==
    LET Lcm(a, b) == (a * b) \div Gcd(a, b)
        den == Lcm(Lcm(v[1].d, v[2].d), v[3].d)
    IN  [num |-> [k \in 1 .. 3 |-> v[k].r * (den \div v[k].d)], den |-> den]

\* Lines 115-124 on the cube: Vector.normalized() of the derivative, carried
\* by the shortest vector of whole units of its direction.
get_handle_normal_exact(centroid_1, normal_1, centroid_2, normal_2, i, n, weight) ==
    LET \* lines 119-124 without the trailing normalized(): the derivative
        \* of the centroid at t = i/n
        derivative ==
            SurdVSub(
                SurdVAdd(
                    SurdVAdd(SurdVScale(Surd(hermite_1_derivative(i, n), 0, n * n, 0),
                                        centroid_1),
                             SurdVScale(Surd(-hermite_1_derivative(n - i, n), 0, n * n, 0),
                                        centroid_2)),
                    SurdVScale(Surd(weight * hermite_2_derivative(i, n), 0, n * n, 0),
                               SurdVector(normal_1))),
                SurdVScale(Surd(weight * (-hermite_2_derivative(n - i, n)), 0, n * n, 0),
                           SurdVector(normal_2)))
    IN  normalized(OverDenominator(derivative).num)

\* Lines 226-247, one iteration on the cube: t = ts[i - 1] = i / num_segments.
CreateRingExact ==
    /\ mh.pc = "rings"
    /\ OnCube
    /\ mh.i <= InteriorRings(mh.num_segments)
    /\ LET centroid == get_handle_centroid_exact(mh.centroid_1, mh.normal_1,
                           mh.centroid_2, mh.normal_2, mh.i, mh.num_segments, mh.weight)
           normal == get_handle_normal_exact(mh.centroid_1, mh.normal_1,
                         mh.centroid_2, mh.normal_2, mh.i, mh.num_segments, mh.weight)
           blend == interpolate_polar_polygons(
                        mh.points_1_polar, mh.points_2_polar, mh.i, mh.num_segments)
           \* lines 240-246: the vertices created for the blended polygon
           \* (radii in units), around the ring's centroid and turned to its
           \* normal
           polygon ==
               [k \in 1 .. Len(blend.result) |->
                   [co |-> Zero3, co_unit |-> OverDenominator(centroid).num,
                    den |-> OverDenominator(centroid).den,
                    offset |-> [radius |-> blend.result[k].radius,
                                angle  |-> blend.result[k].angle,
                                normal |-> [lattice |-> Zero3, unit |-> normal]]]]
           segment == [k \in 1 .. Len(polygon) |-> Len(mesh.verts) + k]
       IN  IF blend.raised # ""
           THEN /\ mh' = [mh EXCEPT !.pc = "raised", !.raised = blend.raised]
                /\ mesh' = mesh
           ELSE /\ mesh' = CreateVerts(mesh, polygon)
                /\ mh' = [mh EXCEPT !.rings = Append(mh.rings, segment),
                                    !.i = mh.i + 1]
    /\ UNCHANGED call

\* Lines 375-376: make_handle has returned; the mesh is written back.
MakeHandleMainReturn ==
    /\ OnCube
    /\ call.result = ""
    /\ mh.pc = "done"
    /\ call' = [call EXCEPT !.result = "returned"]
    /\ UNCHANGED <<mesh, mh>>

Next ==
    \/ Call
    \/ Validate
    \/ AlignRings
    \/ ChooseBasis
    \/ ProjectPolar
    \/ Untwist
    \/ CreateRing
    \/ AppendLastRing
    \/ StitchPair
    \/ DeleteFace1
    \/ DeleteFace2

Spec == Init /\ [][Next]_vars

\* The builders: calls of make_handle on the fixture, the script of main.py
\* on its cube, and main() of make_handle.py on its cube.
NextBuilders ==
    \/ Call
    \/ Validate
    \/ AlignRings
    \/ ChooseBasis
    \/ ProjectPolar
    \/ Untwist
    \/ CreateRing
    \/ AppendLastRing
    \/ StitchPair
    \/ DeleteFace1
    \/ DeleteFace2
    \/ MainStart
    \/ MainAlign
    \/ MainChooseBasis
    \/ MainProjectPolar
    \/ MainUntwist
    \/ MainCreateRing
    \/ MainAppendLastRing
    \/ MainStitchPair
    \/ MainDeleteFace1
    \/ MainDeleteFace2
    \/ MakeHandleMain
    \/ AlignRingsExact
    \/ ChooseBasisExact
    \/ ProjectPolarExact
    \/ CreateRingExact
    \/ MakeHandleMainReturn

SpecBuilders == Init /\ [][NextBuilders]_vars

----------------------------------------------------------------------------
(* The functions on their own: one call each, recorded in `call`.          *)

\* The rings base + 1, ..., base + n, turned r places.
RingChoices(base) ==
    UNION {{rotate_list([k \in 1 .. n |-> base + k], r) : r \in Range0(n)} :
              n \in 1 .. MaxRingLen}

\* connect_vertices_with_prism(mesh, vertices_1, vertices_2): the second ring
\* shares no vertex with the first (base MaxRingLen), or overlaps it (base 2).
StitchCall ==
    /\ call = NoCall
    /\ \E vertices_1 \in RingChoices(0),
          vertices_2 \in RingChoices(MaxRingLen) \cup RingChoices(2) :
         /\ call' = [fn |-> "connect_vertices_with_prism",
                     vertices_1 |-> vertices_1, vertices_2 |-> vertices_2]
         /\ mesh' = CreateAll(mesh, connect_vertices_with_prism(vertices_1, vertices_2))
    /\ UNCHANGED mh

NextStitch == StitchCall

SpecStitch == Init /\ [][NextStitch]_vars

\* The bases tried: the coordinate axes, and the diagonals of the plane,
\* which stand for unit vectors that are not exact.
PlaneBases == {<< <<1, 0, 0>>, <<0, 1, 0>> >>, << <<1, 1, 0>>, <<-1, 1, 0>> >>}

\* Points in the plane of the bases.
PlanePoints == {<<x, y, 0>> : x \in -1 .. 1, y \in -1 .. 1}

RECURSIVE SeqsUpTo(_, _)
SeqsUpTo(S, n) ==
    IF n = 0 THEN {<<>>}
    ELSE LET shorter == SeqsUpTo(S, n - 1)
         IN  shorter \cup {Append(q, x) : q \in shorter, x \in S}

PolarCallRecord(variant, vertices, basis, result) ==
    [fn |-> "convert_polygon_to_polar", variant |-> variant,
     vertices |-> vertices, x_axis |-> basis[1], y_axis |-> basis[2],
     result |-> result]

\* convert_polygon_to_polar of make_handle.py
PolarCallMakeHandle ==
    /\ call = NoCall
    /\ \E vertices \in SeqsUpTo(PlanePoints, MaxPolygonLen), basis \in PlaneBases :
         \E result \in convert_polygon_to_polar(vertices, basis[1], basis[2], TRUE) :
            call' = PolarCallRecord("make_handle.py", vertices, basis, result)
    /\ UNCHANGED <<mesh, mh>>

\* convert_polygon_to_polar of main.py
PolarCallMain ==
    /\ call = NoCall
    /\ \E vertices \in SeqsUpTo(PlanePoints, MaxPolygonLen), basis \in PlaneBases :
         \E result \in convert_polygon_to_polar_main(
                        [k \in 1 .. Len(vertices) |-> SurdVector(vertices[k])],
                        SurdVector(basis[1]),
                        SurdVector(basis[2]), TRUE) :
            call' = PolarCallRecord("main.py", vertices, basis, result)
    /\ UNCHANGED <<mesh, mh>>

NextPolar == PolarCallMakeHandle \/ PolarCallMain

SpecPolar == Init /\ [][NextPolar]_vars

\* Two polar points to build polygons from.
PolarSamples ==
    {[radius |-> Length(<<1, 0, 0>>), angle |-> ZeroAngle],
     [radius |-> Length(<<0, 2, 0>>), angle |-> AddTurns(atan2(1, 0), 1)]}

\* interpolate_polar_polygons(polar_polygon_1, polar_polygon_2, t), t = i/n
BlendCall ==
    /\ call = NoCall
    /\ \E polar_polygon_1 \in SeqsUpTo(PolarSamples, MaxPolygonLen),
          polar_polygon_2 \in SeqsUpTo(PolarSamples, MaxPolygonLen),
          n \in 2 .. 3 :
         \E i \in 1 .. (n - 1) :
            LET blend == interpolate_polar_polygons(polar_polygon_1, polar_polygon_2, i, n)
            IN  call' = [fn |-> "interpolate_polar_polygons",
                         polar_polygon_1 |-> polar_polygon_1,
                         polar_polygon_2 |-> polar_polygon_2,
                         i |-> i, n |-> n,
                         raised |-> blend.raised, result |-> blend.result]
    /\ UNCHANGED <<mesh, mh>>

NextBlend == BlendCall

SpecBlend == Init /\ [][NextBlend]_vars

SplineVectors == {<<x, y, x + y>> : x \in 0 .. MaxCoord, y \in (-MaxCoord) .. 0}

\* get_handle_centroid and get_handle_normal at t = i/n, 0 <= t <= 1
SplineCall ==
    /\ call = NoCall
    /\ \E centroid_1 \in SplineVectors, normal_1 \in SplineVectors,
          centroid_2 \in SplineVectors, normal_2 \in SplineVectors,
          weight \in {-1, 0, MainWeight}, n \in 1 .. 2, absorbed \in BOOLEAN :
         \E i \in 0 .. n :
            call' = [fn |-> "get_handle_centroid",
                     centroid_1 |-> centroid_1, normal_1 |-> normal_1,
                     centroid_2 |-> centroid_2, normal_2 |-> normal_2,
                     weight |-> weight, i |-> i, n |-> n, absorbed |-> absorbed,
                     centroid |-> get_handle_centroid(centroid_1, normal_1,
                                      centroid_2, normal_2, i, n, weight, absorbed),
                     derivative |-> handle_derivative(centroid_1, normal_1,
                                        centroid_2, normal_2, i, n, weight, absorbed),
                     normal |-> get_handle_normal(centroid_1, normal_1,
                                    centroid_2, normal_2, i, n, weight, absorbed)]
    /\ UNCHANGED <<mesh, mh>>

NextSpline == SplineCall

SpecSpline == Init /\ [][NextSpline]_vars

----------------------------------------------------------------------------
(* The operator MakeHandle.execute.  Its mesh is the fixture with a sixth  *)
(* face, a square at z = 11 that has two vertices in common with face 5.   *)
(* The locals of execute and its result are recorded in `call`.            *)

\* The longest run of faces, and of vertices, tried in a selection history.
MaxSelected == 3

OperatorCo == FixtureCo \o << <<-1, 0, 11>>, <<1, 0, 11>> >>

OperatorFaces ==
    Append(FixtureFaces, [verts |-> <<16, 20, 17, 21>>, normal |-> <<0, 0, 1>>])

OperatorMesh ==
    [verts |-> [k \in 1 .. Len(OperatorCo) |-> LatticeVertex(OperatorCo[k])],
     faces |-> OperatorFaces,
     live  |-> 1 .. Len(OperatorFaces)]

InitOperator ==
    /\ mesh = OperatorMesh
    /\ mh = IdleFrame
    /\ call = NoCall

\* The faces tried in a selection: the triangle, the face of short edges,
\* and the two faces with vertices in common.
SelectableFaces == {3, 4, 5, 6}

\* The vertices tried in a selection: one of face 3 only, one of face 4
\* only, two of faces 5 and 6, one of face 5 only, one of face 6 only, and
\* one of no selectable face.
SelectableVerts == {9, 12, 16, 17, 18, 20, 1}

BMFace(index) == [type |-> "BMFace", index |-> index]

BMVert(index) == [type |-> "BMVert", index |-> index]

\* The lists of at most n elements of S, no element twice (the selection
\* history holds an element once).
Arrangements(S, n) ==
    {q \in SeqsUpTo(S, n) : \A j \in DOMAIN q, k \in DOMAIN q : q[j] = q[k] => j = k}

\* The faces of a selection history, in order of selection, and its vertices.
FaceRuns == Arrangements({BMFace(f) : f \in SelectableFaces}, MaxSelected)

VertRuns == Arrangements({BMVert(v) : v \in SelectableVerts}, MaxSelected)

\* mesh.select_history: faces selected before the vertices, or after them.
History(face_run, vert_run, faces_first) ==
    IF faces_first THEN face_run \o vert_run ELSE vert_run \o face_run

\* Lines 274-281: [element for element in mesh.select_history if isinstance(element, type)]
RECURSIVE SelectByType(_, _)
SelectByType(history, type) ==
    IF history = <<>> THEN <<>>
    ELSE IF Head(history).type = type
         THEN <<Head(history).index>> \o SelectByType(Tail(history), type)
         ELSE SelectByType(Tail(history), type)

\* A swap made only when both vertices are off their faces.
SwapNeeded_both_off(m, face_1, vertex_1, face_2, vertex_2) ==
    ~Contains(FaceVerts(m, face_1), vertex_1) /\ ~Contains(FaceVerts(m, face_2), vertex_2)

\* Line 316
SwapNeeded(m, face_1, vertex_1, face_2, vertex_2) ==
    ~Contains(FaceVerts(m, face_1), vertex_1) \/ ~Contains(FaceVerts(m, face_2), vertex_2)

\* Lines 283-317: the warning reported ("" when none is), and the arguments
\* execute passes to make_handle.
execute_selection(m, faces, vertices) ==
    LET Cancelled(warning) ==
            [report |-> warning, face_1 |-> 0, vertex_1 |-> 0, face_2 |-> 0, vertex_2 |-> 0]
    IN  IF Len(faces) # 2 THEN Cancelled("Select exactly two faces")
        ELSE IF Len(vertices) \notin {1, 2} THEN Cancelled("Select 1 or 2 vertices")
        ELSE
        LET face_1 == faces[1]
            face_2 == faces[2]
            In1(v) == Contains(FaceVerts(m, face_1), v)
            In2(v) == Contains(FaceVerts(m, face_2), v)
            vertex == vertices[1]
            pair == IF Len(vertices) = 1 THEN <<vertex, vertex>> ELSE vertices
            vertex_1 == pair[1]
            vertex_2 == pair[2]
        IN  IF Len(vertices) = 1 /\ ~In1(vertex) /\ ~In2(vertex)
            THEN Cancelled("Vertex is not in either of the selected faces")
            ELSE IF Len(vertices) = 1 /\ (~In1(vertex) \/ ~In2(vertex))
            THEN Cancelled("One of the selected faces does not contain the vertex")
            ELSE IF ~(In1(vertex_1) \/ In2(vertex_1))
            THEN Cancelled("One of the selected vertices is not adjacent to any face")
            ELSE IF ~(In1(vertex_2) \/ In2(vertex_2))
            THEN Cancelled("One of the selected vertices is not adjacent to any face")
            ELSE IF ~(In1(vertex_1) \/ In1(vertex_2))
            THEN Cancelled("One of the selected faces is not adjacent to any vertex")
            ELSE IF ~(In2(vertex_1) \/ In2(vertex_2))
            THEN Cancelled("One of the selected faces is not adjacent to any vertex")
            ELSE IF SwapNeeded(m, face_1, vertex_1, face_2, vertex_2)
            THEN [report |-> "", face_1 |-> face_1, vertex_1 |-> vertex_2,
                  face_2 |-> face_2, vertex_2 |-> vertex_1]
            ELSE [report |-> "", face_1 |-> face_1, vertex_1 |-> vertex_1,
                  face_2 |-> face_2, vertex_2 |-> vertex_2]

\* Lines 271-328: execute up to its return of CANCELLED, or up to its call
\* of make_handle.
Execute ==
    /\ call = NoCall
    /\ mh.pc = "idle"
    /\ \E face_run \in FaceRuns, vert_run \in VertRuns, faces_first \in BOOLEAN :
         LET history == History(face_run, vert_run, faces_first)
             faces == SelectByType(history, "BMFace")
             vertices == SelectByType(history, "BMVert")
             selection == execute_selection(mesh, faces, vertices)
         IN  IF selection.report # ""
             THEN /\ call' = [fn |-> "execute", faces |-> faces, vertices |-> vertices,
                              report |-> selection.report, make_handle_calls |-> 0,
                              result |-> "CANCELLED"]
                  /\ mh' = mh
             ELSE /\ call' = [fn |-> "execute", faces |-> faces, vertices |-> vertices,
                              report |-> "", make_handle_calls |-> 1,
                              result |-> ""]
                  /\ \E segments \in SegmentChoices, twists \in TwistChoices :
                       mh' = [mh EXCEPT !.pc = "validate",
                                        !.face_1 = selection.face_1,
                                        !.vertex_1 = selection.vertex_1,
                                        !.face_2 = selection.face_2,
                                        !.vertex_2 = selection.vertex_2,
                                        !.num_segments = segments,
                                        !.weight = DefaultWeight,
                                        !.twists = twists]
    /\ UNCHANGED mesh

\* Lines 329-330: make_handle has returned.
ExecuteFinished ==
    /\ call.fn = "execute"
    /\ call.result = ""
    /\ mh.pc = "done"
    /\ call' = [call EXCEPT !.result = "FINISHED"]
    /\ UNCHANGED <<mesh, mh>>

\* Lines 319-328: an exception of make_handle leaves execute.
ExecuteRaised ==
    /\ call.fn = "execute"
    /\ call.result = ""
    /\ mh.pc = "raised"
    /\ call' = [call EXCEPT !.result = "RuntimeError"]
    /\ UNCHANGED <<mesh, mh>>

NextOperator ==
    \/ Execute
    \/ Validate
    \/ AlignRings
    \/ ChooseBasis
    \/ ProjectPolar
    \/ Untwist
    \/ CreateRing
    \/ AppendLastRing
    \/ StitchPair
    \/ DeleteFace1
    \/ DeleteFace2
    \/ ExecuteFinished
    \/ ExecuteRaised

SpecOperator == InitOperator /\ [][NextOperator]_vars

\* The lattice carries the call exactly: the centroids are lattice points,
\* and the normals and the line between the centroids lie along coordinate
\* axes, so that normalized() and the rotations stay on the lattice.
LatticeExact ==
    mh.pc \notin {"idle", "validate", "align"} /\ mh.raised \notin
            {"Vertex 1 not in face 1", "Vertex 2 not in face 2"} =>
        /\ \A face \in {mh.face_1, mh.face_2} :
             VScale(Len(FaceVerts(mesh, face)), get_centroid(mesh, face))
                = SumCo([k \in 1 .. Len(FaceVerts(mesh, face)) |->
                            Co(mesh, FaceVerts(mesh, face)[k])])
        /\ AxisAligned(VSub(mh.centroid_2, mh.centroid_1))
        /\ AxisAligned(mh.normal_1) /\ LengthSquared(mh.normal_1) = 1
        /\ AxisAligned(mh.normal_2) /\ LengthSquared(mh.normal_2) = 1

----------------------------------------------------------------------------
(* Claims.                                                                 *)

\* The vertex lists of the faces created since the fixture, in order of creation.
Emitted ==
    [k \in 1 .. (Len(mesh.faces) - Len(Mesh0.faces)) |->
        mesh.faces[Len(Mesh0.faces) + k].verts]

Elements(list) == {list[k] : k \in DOMAIN list}

Max(a, b) == IF a >= b THEN a ELSE b

\* The larger ring of a stitcher call (the first on a tie), and the other.
LargerRing == 
    IF Len(call.vertices_1) >= Len(call.vertices_2)
    THEN call.vertices_1 ELSE call.vertices_2

SmallerRing ==
    IF Len(call.vertices_1) >= Len(call.vertices_2)
    THEN call.vertices_2 ELSE call.vertices_1

\* C1: with L the larger ring (the first on a tie) and S the other, the
\* stitcher emits exactly the |S| quadrilaterals L[i], L[i+1], S[i+1], S[i]
\* and then the |L|-|S| triangles L[i], L[i+1], S[0], and nothing else; every
\* vertex of L is on an emitted face; the triangles take no vertex from S but
\* S[0] (their other two vertices are L's: when the rings have no vertex in
\* common no other vertex of S is on a triangle); and rings of 4 and 6
\* vertices give 4 quadrilaterals and 2 triangles.
C1_StitcherEmission ==
    call.fn = "connect_vertices_with_prism" =>
        LET L == LargerRing
            S == SmallerRing
            triangles == {i \in Range0(Len(Emitted)) : Len(At(Emitted, i)) = 3}
            quads == {i \in Range0(Len(Emitted)) : Len(At(Emitted, i)) = 4}
        IN  /\ Len(Emitted) = Len(L)
            /\ \A i \in 0 .. (Len(S) - 1) :
                 At(Emitted, i) = << At(L, i), At(L, (i + 1) % Len(L)),
                                     At(S, (i + 1) % Len(S)), At(S, i) >>
            /\ \A i \in Len(S) .. (Len(L) - 1) :
                 At(Emitted, i) = << At(L, i), At(L, (i + 1) % Len(L)), At(S, 0) >>
            /\ \A v \in Elements(L) :
                 \E i \in Range0(Len(Emitted)) : v \in Elements(At(Emitted, i))
            /\ \A i \in triangles :
                 /\ At(Emitted, i)[3] = At(S, 0)
                 /\ Elements(L) \cap Elements(S) = {} =>
                      Elements(At(Emitted, i)) \cap Elements(S) = {At(S, 0)}
            /\ {Len(L), Len(S)} = {4, 6} =>
                 Cardinality(quads) = 4 /\ Cardinality(triangles) = 2

\* C1 witness: a ring of 4 vertices stitched to a ring of 6 that shares no
\* vertex with it, passed smaller first.
C1_Witness ==
    /\ call.fn = "connect_vertices_with_prism"
    /\ Len(call.vertices_1) = 4
    /\ Len(call.vertices_2) = 6
    /\ Elements(call.vertices_1) \cap Elements(call.vertices_2) = {}
    /\ Len(Emitted) = 6

Vertex1OnFace1 == mh.vertex_1 \in Elements(Mesh0.faces[mh.face_1].verts)

Vertex2OnFace2 == mh.vertex_2 \in Elements(Mesh0.faces[mh.face_2].verts)

Validated == mh.pc \notin {"idle", "validate"}

\* C2: a start vertex off its face makes the call fail with the vertex
\* selection error, vertex 1 reported before vertex 2, whatever the
\* segments, weight and twists, and the mesh is as it was.
C2_InvalidSelectionRaises ==
    (Validated /\ ~(Vertex1OnFace1 /\ Vertex2OnFace2)) =>
        /\ mh.pc = "raised"
        /\ mh.raised = IF ~Vertex1OnFace1 THEN "Vertex 1 not in face 1"
                       ELSE "Vertex 2 not in face 2"
        /\ mesh = Mesh0

\* C2 witness: the call has failed with both start vertices off their faces.
C2_Witness ==
    /\ mh.pc = "raised"
    /\ ~Vertex1OnFace1
    /\ ~Vertex2OnFace2

RingsComplete == mh.pc \in {"stitch", "delete_2", "done"}

Face1Ring == Mesh0.faces[mh.face_1].verts

Face2Ring == Mesh0.faces[mh.face_2].verts

\* ring holds exactly the vertices of base, each once.
IsPermutation(ring, base) ==
    /\ Len(ring) = Len(base)
    /\ Elements(ring) = Elements(base)
    /\ Cardinality(Elements(ring)) = Len(ring)

\* C3: ring[0] is face 1's ring turned so that start vertex 1 is first, the
\* last ring is face 2's ring reversed and turned so that start vertex 2 is
\* first; both are permutations of their face's vertices, the successor of
\* a vertex in ring[0] is its successor on face 1 and the successor of a
\* vertex in the last ring is its predecessor on face 2.
C3_EndpointRings ==
    RingsComplete =>
        LET first == At(mh.rings, 0)
            last == At(mh.rings, mh.num_segments)
            n1 == Len(Face1Ring)
            n2 == Len(Face2Ring)
        IN  /\ Len(mh.rings) = mh.num_segments + 1
            /\ At(first, 0) = mh.vertex_1
            /\ At(last, 0) = mh.vertex_2
            /\ IsPermutation(first, Face1Ring)
            /\ IsPermutation(last, Face2Ring)
            /\ \E shift \in Range0(n1) : \A j \in Range0(n1) :
                 At(first, j) = At(Face1Ring, (j + shift) % n1)
            /\ \E shift \in Range0(n2) : \A j \in Range0(n2) :
                 At(last, j) = At(Face2Ring, (shift - j) % n2)
            /\ \A j \in Range0(n1), k \in Range0(n1) :
                 At(first, j) = At(Face1Ring, k) =>
                     At(first, (j + 1) % n1) = At(Face1Ring, (k + 1) % n1)
            /\ \A j \in Range0(n2), k \in Range0(n2) :
                 At(last, j) = At(Face2Ring, k) =>
                     At(last, (j + 1) % n2) = At(Face2Ring, (k - 1) % n2)

\* C3 witness: a finished call whose start vertices are not the first
\* vertices of their faces.
C3_Witness ==
    /\ mh.pc = "done"
    /\ mh.vertex_1 # At(Face1Ring, 0)
    /\ mh.vertex_2 # At(Face2Ring, 0)
    /\ mh.vertex_2 # At(Face2Ring, Len(Face2Ring) - 1)

Bunched == "All the vertices in one of the faces are bunched together"

Aligned ==
    \/ mh.pc \in {"basis", "polar", "untwist", "rings", "stitch", "delete_2", "done"}
    \/ mh.pc = "raised" /\ mh.raised \notin {"Vertex 1 not in face 1", "Vertex 2 not in face 2"}

\* The padded points, looked at when they are just made and when the call
\* is over.
Padded ==
    \/ mh.pc \in {"basis", "done"}
    \/ mh.pc = "raised" /\ mh.raised \notin {"Vertex 1 not in face 1", "Vertex 2 not in face 2"}

Projected == mh.pc \in {"untwist", "rings", "stitch", "delete_2", "done"}

CommonLength == Max(Len(Face1Ring), Len(Face2Ring))

\* The centroid-relative point of a vertex of the fixture.
CentredPoint(vertex, face) == VSub(Mesh0.verts[vertex].co, get_centroid(Mesh0, face))

\* C4: after padding both point lists have M = max(len1, len2) entries, the
\* points of each ring are kept in place and every entry appended equals the
\* list's first point; the two polar polygons have M entries each whenever
\* they are blended, the interpolator never fails, and every interior ring
\* has M vertices.
C4_Padding ==
    /\ Padded =>
        /\ Len(mh.points_1) = CommonLength
        /\ Len(mh.points_2) = CommonLength
        /\ \A k \in 1 .. Len(Face1Ring) :
             mh.points_1[k] = CentredPoint(mh.original_vertices_1[k], mh.face_1)
        /\ \A k \in 1 .. Len(Face2Ring) :
             mh.points_2[k] = CentredPoint(mh.original_vertices_2[k], mh.face_2)
        /\ \A k \in (Len(Face1Ring) + 1) .. CommonLength :
             mh.points_1[k] = mh.points_1[1]
        /\ \A k \in (Len(Face2Ring) + 1) .. CommonLength :
             mh.points_2[k] = mh.points_2[1]
    /\ Projected =>
        /\ Len(mh.points_1_polar) = CommonLength
        /\ Len(mh.points_2_polar) = CommonLength
    /\ mh.raised # "IndexError"
    /\ \A k \in 1 .. Len(mh.rings) :
         (1 <= k - 1 /\ k - 1 <= mh.num_segments - 1) =>
             Len(mh.rings[k]) = CommonLength

\* C4 witness: a finished call on faces of different lengths, with an interior ring.
C4_Witness ==
    /\ mh.pc = "done"
    /\ Len(Face1Ring) < Len(Face2Ring)
    /\ mh.num_segments >= 2
    /\ Len(At(mh.rings, 1)) = Len(Face2Ring)

BothQuads == Len(Face1Ring) = 4 /\ Len(Face2Ring) = 4

DefaultCall ==
    /\ call = NoCall
    /\ mh.pc = "done"
    /\ BothQuads
    /\ mh.num_segments = DefaultSegments
    /\ mh.weight = MainWeight
    /\ mh.twists = 0

\* The rings made of created vertices.
InteriorRingCount ==
    Cardinality({k \in 1 .. Len(mh.rings) :
                    \A j \in DOMAIN mh.rings[k] : mh.rings[k][j] > Len(Mesh0.verts)})

OriginalsRemoved ==
    /\ mh.face_1 \notin mesh.live
    /\ mh.face_2 \notin mesh.live
    /\ \A f \in 1 .. Len(Mesh0.faces) : f \notin {mh.face_1, mh.face_2} => f \in mesh.live

AllQuads == \A k \in DOMAIN Emitted : Len(Emitted[k]) = 4

\* main() of main.py has returned.
MainDone == call.fn = "main" /\ call.pc = "done"

\* The vertex lists of the faces main() created on its cube.
MainEmitted ==
    [k \in 1 .. (Len(mesh.faces) - Len(CubeFaces)) |-> mesh.faces[Len(CubeFaces) + k].verts]

\* The rings of main() made of created vertices.
MainInteriorRingCount ==
    Cardinality({k \in 1 .. Len(call.handle_vertices) :
                    \A j \in DOMAIN call.handle_vertices[k] :
                        call.handle_vertices[k][j] > Len(CubeCo)})

MainOriginalsRemoved ==
    /\ call.face_1 \notin mesh.live
    /\ call.face_2 \notin mesh.live
    /\ \A f \in 1 .. Len(CubeFaces) : f \notin {call.face_1, call.face_2} => f \in mesh.live

MainAllQuads == \A k \in DOMAIN MainEmitted : Len(MainEmitted[k]) = 4

\* C5 as stated: two 4-vertex faces bridged with segments=10, weight=30,
\* twist=0 give 10 rings of quadrilaterals and exactly 44 new faces, and the
\* 2 original faces are removed; by make_handle, and by main() of main.py
\* with its n = 10.
C5_AsStated ==
    /\ DefaultCall =>
          /\ Len(mh.rings) - 1 = 10
          /\ Len(Emitted) = 44
          /\ AllQuads
          /\ OriginalsRemoved
    /\ MainDone =>
          /\ MainInteriorRingCount = 10
          /\ Len(MainEmitted) = 44
          /\ MainAllQuads
          /\ MainOriginalsRemoved

\* C5 amended: two 4-vertex faces bridged with weight=30 and no twist.
\* make_handle with segments=10 gives 9 interior rings, hence 10 bands of 4
\* quadrilaterals, which is exactly 40 new faces.  main() of main.py with
\* n=10 gives 8 interior rings (10 rings with the two faces), hence 9 bands
\* of 4 quadrilaterals, which is exactly 36 new faces.  In both, the 2
\* original faces (and no other) are removed.
C5_DefaultBridge ==
    /\ DefaultCall =>
          /\ InteriorRingCount = 9
          /\ Len(mh.rings) - 1 = 10
          /\ Len(Emitted) = 40
          /\ AllQuads
          /\ OriginalsRemoved
    /\ MainDone =>
          /\ Len(FaceVerts(mesh, call.face_1)) = 4
          /\ Len(FaceVerts(mesh, call.face_2)) = 4
          /\ MainInteriorRingCount = 8
          /\ Len(call.handle_vertices) = 10
          /\ Len(MainEmitted) = 36
          /\ MainAllQuads
          /\ MainOriginalsRemoved

\* C5 witness: the two opposite squares of the cube, bridged by make_handle
\* with the defaults.
C5_Witness ==
    /\ DefaultCall
    /\ mh.face_1 = 1
    /\ mh.face_2 = 2
    /\ Len(Emitted) > 0

\* main() has run to its end on two neighbouring faces of its cube, and on
\* two opposite ones.
C5_MainNeighbours ==
    /\ MainDone
    /\ Dot(FaceNormal(mesh, call.face_1), FaceNormal(mesh, call.face_2)) = 0
    /\ Len(MainEmitted) > 0

C5_MainOpposite ==
    /\ MainDone
    /\ Dot(FaceNormal(mesh, call.face_1), FaceNormal(mesh, call.face_2)) = -1
    /\ Len(MainEmitted) > 0

\* C6 as stated: whenever the two polar polygons differ in length, in either
\* direction, the interpolator fails and returns no blended polygon.
C6_LengthMismatchRaises ==
    (/\ call.fn = "interpolate_polar_polygons"
     /\ Len(call.polar_polygon_1) # Len(call.polar_polygon_2)) =>
        /\ call.raised # ""
        /\ call.result = <<>>

\* What C7 states of one projection: the angles never decrease, the first is
\* at least 0, each is the point's atan2 angle plus a whole number >= 0 of
\* turns, and there is one polar point per input point.
PolarContract(vertices, x_axis, y_axis, result) ==
    /\ Len(result) = Len(vertices)
    /\ \A k \in 1 .. (Len(result) - 1) :
         ~AngleLess(result[k + 1].angle, result[k].angle)
    /\ Len(result) > 0 => ~AngleLess(result[1].angle, ZeroAngle)
    /\ \A k \in 1 .. Len(result) :
         /\ result[k].angle.dir =
                atan2(Dot(vertices[k], y_axis), Dot(vertices[k], x_axis)).dir
         /\ result[k].angle.turns >= 0

\* C7 as stated: the polar projection of make_handle.py and the one of
\* main.py both return angles that never decrease, start at 0 or more and
\* differ from the raw atan2 angle by a whole number >= 0 of turns.
C7_PolarMonotone ==
    call.fn = "convert_polygon_to_polar" => PolarContract(call.vertices, call.x_axis, call.y_axis, call.result)

\* The part of C7 that the code bears out: the projection of make_handle.py.
C7_PolarMonotoneMakeHandle ==
    (call.fn = "convert_polygon_to_polar" /\ call.variant = "make_handle.py") =>
        PolarContract(call.vertices, call.x_axis, call.y_axis, call.result)

\* The untwist step is behind: looked at while the rings are created, and
\* when the call is over.
Untwisting == mh.pc \in {"rings", "done"}

\* The two polar polygons as projected, before the untwist step.
Projection1 == mh.points_1_polar_projected

Projection2 == mh.points_2_polar_projected

\* a2 - a1 > pi, for the first angles as projected
OffsetAbovePi == AngleLess(AddPi(Projection1[1].angle), Projection2[1].angle)

\* |b - a| <= pi
WithinPi(a, b) == ~AngleLess(AddPi(a), b) /\ ~AngleLess(AddPi(b), a)

\* C8: the two polar polygons are first what the projection returns for the
\* aligned rings.  The untwist and twist step then shifts every angle of ring
\* 2 by `twists` turns, less one turn if a2 - a1 > pi for the first angles as
\* projected (when a2 - a1 is pi, by the one or by the other, as the comparison rounds),
\* and leaves ring 1's angles and all radii alone; with twists = 0 ring 2 is
\* unchanged when the offset is below pi, and when it is above pi one turn
\* is taken off and ring 2's first angle ends within pi of ring 1's.
C8_UntwistShift ==
    /\ mh.pc = "untwist" =>
          /\ Projection1 \in convert_polygon_to_polar(
                                 mh.vertices_1, mh.x_axis, mh.y_axis, FALSE)
          /\ Projection2 \in convert_polygon_to_polar(
                                 mh.vertices_2, mh.x_axis, mh.y_axis, FALSE)
          /\ mh.points_1_polar = Projection1
          /\ mh.points_2_polar = Projection2
    /\ Untwisting =>
        LET before_1 == Projection1
            before_2 == Projection2
            a1 == before_1[1].angle
            a2 == before_2[1].angle
            above == AngleLess(AddPi(a1), a2)
            below == AngleLess(a2, AddPi(a1))
            shifts == IF above THEN {mh.twists - 1}
                      ELSE IF below THEN {mh.twists}
                      ELSE {mh.twists - 1, mh.twists}
        IN  /\ Len(mh.points_2_polar) = Len(before_2)
            /\ \E shift \in shifts : \A k \in 1 .. Len(before_2) :
                 /\ mh.points_2_polar[k].angle.turns = before_2[k].angle.turns + shift
                 /\ mh.points_2_polar[k].angle.dir = before_2[k].angle.dir
                 /\ mh.points_2_polar[k].radius = before_2[k].radius
            /\ mh.points_1_polar = before_1
            /\ (mh.twists = 0 /\ below) => mh.points_2_polar = before_2
            /\ (mh.twists = 0 /\ above) =>
                 /\ \A k \in 1 .. Len(before_2) :
                      mh.points_2_polar[k].angle = AddTurns(before_2[k].angle, -1)
                 /\ WithinPi(a1, mh.points_2_polar[1].angle)

\* C8 witness: a finished call with one twist whose rings were more than pi apart.
C8_Witness ==
    /\ mh.pc = "done"
    /\ mh.twists = 1
    /\ OffsetAbovePi
    /\ mh.points_2_polar[1].angle = Projection2[1].angle

\* Edge i of the aligned and padded ring 1: from point i to its cyclic predecessor.
Edge(i) ==
    VSub(At(mh.vertices_1, (i - 1) % Len(mh.vertices_1)), At(mh.vertices_1, i))

LongEdge(i) == 4 * LengthSquared(Edge(i)) >= EdgeThresholdDoubled * EdgeThresholdDoubled

BasisChosen == mh.pc \in {"polar", "untwist", "rings", "stitch", "delete_2", "done"}

\* C9: the x axis comes from the first edge, in scan order, of the aligned
\* and padded ring 1 that reaches the threshold, edge i running between
\* point i and point (i - 1) mod M; the call fails as degenerate exactly when
\* no edge reaches the threshold, and the mesh is then as it was.
C9_BasisSelection ==
    /\ BasisChosen =>
         \E i \in Range0(Len(mh.vertices_1)) :
            /\ LongEdge(i)
            /\ \A j \in Range0(i) : ~LongEdge(j)
            /\ mh.x_axis = normalized(Edge(i))
    /\ (Aligned /\ mh.pc # "basis") =>
         ((mh.pc = "raised" /\ mh.raised = Bunched)
            <=> (\A i \in Range0(Len(mh.vertices_1)) : ~LongEdge(i)))
    /\ mh.raised = Bunched => mesh = Mesh0

\* C9 witness: the call has failed on a face 1 whose edges are all short
\* but not all zero.
C9_Witness ==
    /\ mh.pc = "raised"
    /\ mh.raised = Bunched
    /\ \E i \in Range0(Len(mh.vertices_1)) : Edge(i) # Zero3

\* C10: at t = 0 the centroid is c1 and the vector get_handle_normal
\* normalizes is w*n1, at t = 1 they are c2 and w*n2; and the basis
\* functions have h1(0)=1, h1(1)=0, h1'(0)=h1'(1)=0, h2(0)=h2(1)=0,
\* h2'(0)=1, h2'(1)=0.  (Values at t = i/n are numerators over n^3, and
\* over n^2 for the derivatives; the centroids are on the lattice and the
\* weighted normals in units.)
C10_SplineEndpoints ==
    call.fn = "get_handle_centroid" =>
        LET n == call.n
            cube == n * n * n
            square == n * n
        IN  /\ call.i = 0 =>
                 /\ call.centroid = [lattice |-> VScale(cube, call.centroid_1),
                                      unit |-> Zero3]
                 /\ call.derivative =
                      [lattice |-> Zero3,
                       unit |-> VScale(square * call.weight, call.normal_1)]
                 /\ call.normal =
                      [lattice |-> Zero3,
                       unit |-> normalized(VScale(call.weight, call.normal_1))]
            /\ call.i = n =>
                 /\ call.centroid = [lattice |-> VScale(cube, call.centroid_2),
                                      unit |-> Zero3]
                 /\ call.derivative =
                      [lattice |-> Zero3,
                       unit |-> VScale(square * call.weight, call.normal_2)]
                 /\ call.normal =
                      [lattice |-> Zero3,
                       unit |-> normalized(VScale(call.weight, call.normal_2))]
            /\ hermite_1(0, n) = cube /\ hermite_1(n, n) = 0
            /\ hermite_1_derivative(0, n) = 0 /\ hermite_1_derivative(n, n) = 0
            /\ hermite_2(0, n) = 0 /\ hermite_2(n, n) = 0
            /\ hermite_2_derivative(0, n) = square /\ hermite_2_derivative(n, n) = 0

\* C10 witness: the spline evaluated at t = 1 with a weight and all four
\* vectors different from zero.
C10_Witness ==
    /\ call.fn = "get_handle_centroid"
    /\ call.i = call.n
    /\ call.weight = MainWeight
    /\ Zero3 \notin {call.centroid_1, call.centroid_2, call.normal_1, call.normal_2}
    /\ call.centroid_1 # call.centroid_2
    /\ call.normal_1 # call.normal_2

\* The stitcher calls made so far.
Stitched ==
    IF mh.pc = "stitch" THEN mh.i
    ELSE IF mh.pc \in {"delete_2", "done"} THEN mh.num_segments
    ELSE 0

\* The faces of the mesh that the call may have deleted so far.
DeletedSoFar ==
    IF mh.pc = "delete_2" THEN {mh.face_1}
    ELSE IF mh.pc = "done" THEN {mh.face_1, mh.face_2}
    ELSE {}

\* C11: a call of N segments on faces of len1 and len2 vertices, M the
\* larger: the N-1 interior rings are created in increasing order of
\* t = i/N, M new vertices each and (N-1)*M in all (none when N = 1); the
\* stitcher runs once on each consecutive ring pair, in order, M faces a
\* pair and N*M in all, of which |len1 - len2| are triangles and the rest
\* quadrilaterals; face 1 and face 2 are deleted after the last stitch and
\* no other face is; no vertex of the input mesh is deleted or moved.
\* (While the rings are created the newest ring is looked at, while they are
\* stitched the newest band, and all of them from then on.)
C11_NetEffect ==
    LET N == mh.num_segments
        M == CommonLength
        V0 == Len(Mesh0.verts)
        F0 == Len(Mesh0.faces)
        rings == mh.rings
        emitted == Emitted
        stitched == Stitched
    IN  /\ Len(mesh.verts) >= V0
        /\ \A v \in 1 .. V0 : mesh.verts[v] = Mesh0.verts[v]
        /\ \A f \in 1 .. F0 : mesh.faces[f] = Mesh0.faces[f]
        /\ mesh.live = (1 .. Len(mesh.faces)) \ DeletedSoFar
        /\ mh.pc \in {"idle", "validate", "align", "basis", "polar", "untwist", "raised"} =>
              mesh = Mesh0
        /\ mh.pc = "rings" =>
              /\ Len(mesh.verts) = V0 + (mh.i - 1) * M
              /\ Len(rings) = mh.i
              /\ emitted = <<>>
        /\ RingsComplete =>
              /\ Len(mesh.verts) = V0 + (N - 1) * M
              /\ Len(rings) = N + 1
              /\ Len(emitted) = stitched * M
              /\ \A j \in (IF mh.pc = "stitch" THEN Max(stitched - 1, 0) ELSE 0) .. (stitched - 1) :
                    LET band == SubSeq(emitted, j * M + 1, (j + 1) * M)
                        lower == Elements(At(rings, j))
                        upper == Elements(At(rings, j + 1))
                    IN  /\ band = connect_vertices_with_prism(At(rings, j), At(rings, j + 1))
                        /\ \A k \in DOMAIN band :
                              /\ Elements(band[k]) \subseteq lower \cup upper
                              /\ Elements(band[k]) \cap lower # {}
                              /\ Elements(band[k]) \cap upper # {}
        /\ mh.pc \in {"rings", "stitch", "delete_2", "done"} =>
              \A j \in (IF mh.pc = "rings" THEN mh.i - 1 ELSE 1) .. (Len(rings) - 1) :
                (1 <= j /\ j <= N - 1) =>
                  /\ Len(At(rings, j)) = M
                  /\ \A k \in 1 .. M :
                        LET vertex == At(rings, j)[k]
                        IN  /\ vertex = V0 + (j - 1) * M + k
                            /\ mesh.verts[vertex].den = N * N * N
                            /\ mesh.verts[vertex].offset.angle.i = j
                            /\ mesh.verts[vertex].offset.angle.n = N
        /\ mh.pc \in {"delete_2", "done"} =>
              /\ Len(emitted) = N * M
              /\ Cardinality({k \in DOMAIN emitted : Len(emitted[k]) = 3})
                    = Abs(Len(Face1Ring) - Len(Face2Ring))
              /\ \A k \in DOMAIN emitted : Len(emitted[k]) \in {3, 4}

\* C11 witness: a finished call of at least two segments on faces of
\* different lengths: interior vertices were created, the bands at both ends
\* of the handle were stitched, one of them with triangles, and both faces
\* are gone.
C11_Witness ==
    /\ mh.pc = "done"
    /\ mh.num_segments >= 2
    /\ Len(Face1Ring) # Len(Face2Ring)
    /\ Len(mesh.verts) > Len(Mesh0.verts)
    /\ \E k \in DOMAIN Emitted : Len(Emitted[k]) = 3
    /\ mesh.live \cap {mh.face_1, mh.face_2} = {}

\* vertex in face.verts, on the operator's mesh
OnFace(vertex, face) == vertex \in Elements(OperatorMesh.faces[face].verts)

\* The selection has a start vertex for each face: with two vertices one on
\* each face, in either order; with one vertex, that vertex on both faces.
Assignable(faces, vertices) ==
    /\ Len(faces) = 2
    /\ \/ /\ Len(vertices) = 1
          /\ OnFace(vertices[1], faces[1])
          /\ OnFace(vertices[1], faces[2])
       \/ /\ Len(vertices) = 2
          /\ \/ OnFace(vertices[1], faces[1]) /\ OnFace(vertices[2], faces[2])
             \/ OnFace(vertices[2], faces[1]) /\ OnFace(vertices[1], faces[2])

\* C12: for every selection history, execute either returns CANCELLED with a
\* warning, without a call of make_handle and with the mesh as it was, or
\* calls make_handle once, on the two selected faces in their order of
\* selection, with a vertex_1 of face_1 and a vertex_2 of face_2: the two
\* selected vertices, swapped when they do not fit in their order of
\* selection, or the one selected vertex twice; the call passes make_handle's
\* vertex checks, so that neither of their errors leaves the operator.
\* execute cancels a selection only if no start vertex can be given to one
\* of the faces.
C12_OperatorValidation ==
    call.fn = "execute" =>
        LET faces == call.faces
            vertices == call.vertices
        IN  \/ /\ call.result = "CANCELLED"
               /\ call.report # ""
               /\ call.make_handle_calls = 0
               /\ mh = IdleFrame
               /\ mesh = OperatorMesh
               /\ ~Assignable(faces, vertices)
            \/ /\ call.result \in {"", "FINISHED", "RuntimeError"}
               /\ call.report = ""
               /\ call.make_handle_calls = 1
               /\ mh.pc # "idle"
               /\ Len(faces) = 2
               /\ mh.face_1 = faces[1]
               /\ mh.face_2 = faces[2]
               /\ OnFace(mh.vertex_1, mh.face_1)
               /\ OnFace(mh.vertex_2, mh.face_2)
               /\ Len(vertices) \in {1, 2}
               /\ Len(vertices) = 1 =>
                    mh.vertex_1 = vertices[1] /\ mh.vertex_2 = vertices[1]
               /\ Len(vertices) = 2 =>
                    IF OnFace(vertices[1], faces[1]) /\ OnFace(vertices[2], faces[2])
                    THEN mh.vertex_1 = vertices[1] /\ mh.vertex_2 = vertices[2]
                    ELSE mh.vertex_1 = vertices[2] /\ mh.vertex_2 = vertices[1]
               /\ mh.raised \notin {"Vertex 1 not in face 1", "Vertex 2 not in face 2"}
               /\ call.result = "RuntimeError" => mh.raised = Bunched
               /\ call.result = "FINISHED" => mh.pc = "done"

\* C12 witness: execute has finished on two selected vertices that it
\* swapped, the first selected being on both faces and the second on the
\* first face only.
C12_Witness ==
    /\ call.fn = "execute"
    /\ call.result = "FINISHED"
    /\ Len(call.vertices) = 2
    /\ OnFace(call.vertices[1], call.faces[1])
    /\ OnFace(call.vertices[1], call.faces[2])
    /\ ~OnFace(call.vertices[2], call.faces[2])
    /\ mh.vertex_1 = call.vertices[2]
    /\ mh.vertex_2 = call.vertices[1]

\* A selection of one vertex, on both faces, has been carried to the end.
SingleVertexFinished ==
    /\ call.fn = "execute"
    /\ call.result = "FINISHED"
    /\ Len(call.vertices) = 1

\* A selection of two faces and two vertices has been cancelled.
TwoVerticesCancelled ==
    /\ call.fn = "execute"
    /\ call.result = "CANCELLED"
    /\ Len(call.faces) = 2
    /\ Len(call.vertices) = 2

====
